---------------------------- MODULE Spec2Model ----------------------------
(***************************************************************************)
(* Model of the Sudoku viewer (src/src/App.jsx): the puzzle file parser,   *)
(* the transform notation parsers, the constraint checker isValid, the     *)
(* backtracking solver solveBoard / solveSudoku, the board transforms, the *)
(* grid comparison, and the App component with its effects and handlers.   *)
(*                                                                         *)
(* JavaScript arrays are objects with identity, so the model keeps a heap: *)
(* heap[a] is the content of the array at address a (addresses are 1..).   *)
(* A grid is the address of an outer array whose elements are the          *)
(* addresses of its row arrays; a row array holds integers.  Row and       *)
(* column indices are 0-based as in the source; TLA+ sequences are         *)
(* 1-based, hence the +1 in every access.                                  *)
(***************************************************************************)
EXTENDS Integers, Sequences, FiniteSets, TLC

VARIABLES
    heap,      \* the arrays allocated so far
    rows,      \* address of the caller's grid (the argument of every call)
    given,     \* the caller's input by value, as drawn in Init (never changed)
    options,   \* the transform options the calls are made with
    board,     \* address of the grid returned by the latest call, Null if none
    overlay,   \* address of the grid applySpatialTransforms returned, or Null
    result,    \* what the latest call returned
    calls,     \* the calls made so far, oldest first
    first,     \* address of the first grid given to boardsAreEqual, or Null
    second,    \* address of the second grid given to boardsAreEqual, or Null
    text,      \* the text given to a parser, as a sequence of characters
    parsed,    \* what the parser returned for text
    ui,        \* the component's state (the useState values), by field name
    shown,     \* the state as of the latest render (what closures captured)
    effects,   \* the effects of the latest render that have yet to run
    touched,   \* the state fields set to a new object since the latest render
    cache,     \* puzzleCacheRef.current: the puzzles loaded so far, by name
    fetches,   \* the loads that await an answer, in the order they were started
    failed,    \* how many fetches have failed so far
    hasty      \* how many times the list was changed while a load was in flight

vars == <<heap, rows, given, options, board, overlay, result, calls,
          first, second, text, parsed, ui, shown, effects, touched, cache,
          fetches, failed, hasty>>

\* the variables of the mounted component
app == <<ui, shown, effects, touched, cache, fetches, failed, hasty>>

\* the variables that the calls on a single grid never touch
others == <<first, second, text, parsed, app>>

-----------------------------------------------------------------------------
(* Program constants and the bounds of the model *)

Size == 9          \* the grid is 9 x 9
Box == 3           \* boxes are 3 x 3
Null == 0          \* the null reference (no array has address 0)
NoError == "null"  \* error: null in a solveSudoku result

MaxBlanks == 4     \* at most this many cells of the base grid are blanked
MaxCalls == 4      \* at most this many spatial calls are chained
MaxShift == 20     \* shift amounts range over -MaxShift .. MaxShift
MaxPairs == 2      \* a row or column mapping has at most this many pairs
MaxDropped == 1    \* at most this many lines are cut off the end of a puzzle file
MaxChunks == 2     \* a notation text is made of at most this many pieces
MaxChecked == 3    \* at most this many pairs are validated at once
MaxSolves == 2     \* the mounted component calls solveSudoku at most this many times
MaxFetches == 3    \* at most this many loads await an answer
MaxFailures == 1   \* at most this many fetches fail
MaxHasty == 1      \* at most this many changes of the list are made while a load is in flight
MaxEdits == 2      \* at most this many input fields of the modal are off their reset value

Idx == 0 .. (Size - 1)

-----------------------------------------------------------------------------
(* The heap *)

\* rows[r], the content of row array r of grid b
Row(h, b, r) == h[h[b][r + 1]]

\* rows[r][c] is defined (reading past the end of an array gives undefined)
HasCell(h, b, r, c) == r < Len(h[b]) /\ c < Len(Row(h, b, r))

\* rows[r][c]
Cell(h, b, r, c) == Row(h, b, r)[c + 1]

\* rows[r][c] === value; undefined is equal to no number
CellIs(h, b, r, c, value) == HasCell(h, b, r, c) /\ Cell(h, b, r, c) = value

\* rows[r][c] = v
SetCell(h, b, r, c, v) == [h EXCEPT ![h[b][r + 1]][c + 1] = v]

\* the grid at address b, by value
Deref(h, b) == [r \in 1 .. Len(h[b]) |-> h[h[b][r]]]

\* the heap holding grid g alone: its rows at 1..n, its outer array at n+1
HeapOf(g) == g \o << [r \in 1 .. Len(g) |-> r] >>

\* a fresh grid with content g (rows.map(...), Array.from(...) once filled):
\* fresh row arrays, then a fresh outer array holding them
NewBoard(h, g) ==
    [heap |-> h \o g \o << [i \in 1 .. Len(g) |-> Len(h) + i] >>,
     ret |-> Len(h) + Len(g) + 1]

-----------------------------------------------------------------------------
(* Text *)

\* a string as the sequence of its characters
Chars(str) == [i \in 1 .. Len(str) |-> SubSeq(str, i, i)]

\* \d
DigitChars == {"0", "1", "2", "3", "4", "5", "6", "7", "8", "9"}

\* \s, what trim() removes at both ends
WhiteSpace == {" ", "\t", "\n", "\r", "\f"}

\* the number a digit character stands for
DigitOf(ch) == CHOOSE v \in 0 .. 9 : Chars("0123456789")[v + 1] = ch

RECURSIVE parseInt(_)
\* Number.parseInt(value, 10) of a run of digits
parseInt(value) ==
    IF Len(value) = 1 THEN DigitOf(value[1])
    ELSE 10 * parseInt(SubSeq(value, 1, Len(value) - 1)) + DigitOf(value[Len(value)])

\* line.trim()
trim(line) ==
    LET solid == {i \in 1 .. Len(line) : line[i] \notin WhiteSpace}
    IN  IF solid = {} THEN << >>
        ELSE SubSeq(line, CHOOSE i \in solid : \A j \in solid : i <= j,
                          CHOOSE i \in solid : \A j \in solid : i >= j)

\* the k-th smallest element of the set S of numbers
Kth(S, k) == CHOOSE i \in S : Cardinality({j \in S : j < i}) = k - 1

\* str.split(/\r?\n/): the pieces between the line feeds, a carriage return
\* right before a line feed being part of the separator
splitLines(str) ==
    LET feeds == {i \in 1 .. Len(str) : str[i] = "\n"}
        from(k) == IF k = 1 THEN 1 ELSE Kth(feeds, k - 1) + 1
        upto(k) == IF k = Cardinality(feeds) + 1 THEN Len(str)
                   ELSE IF Kth(feeds, k) > from(k) /\ str[Kth(feeds, k) - 1] = "\r"
                        THEN Kth(feeds, k) - 2
                        ELSE Kth(feeds, k) - 1
    IN  [k \in 1 .. Cardinality(feeds) + 1 |-> SubSeq(str, from(k), upto(k))]

\* line.match(/\d/g) || []
digitChars(line) == SelectSeq(line, LAMBDA ch : ch \in DigitChars)

\* line.match(/\d+/g) || []: the maximal runs of digits, left to right
groupedMatches(line) ==
    LET isDigit(i) == i >= 1 /\ i <= Len(line) /\ line[i] \in DigitChars
        starts == {i \in 1 .. Len(line) : isDigit(i) /\ ~isDigit(i - 1)}
        ends == {i \in 1 .. Len(line) : isDigit(i) /\ ~isDigit(i + 1)}
    IN  [k \in 1 .. Cardinality(starts) |->
            SubSeq(line, Kth(starts, k), Kth(ends, k))]

-----------------------------------------------------------------------------
(* Puzzle files *)

\* as numbers, but taking a line of 9 digits as runs: < 9 for <= 9
numbers_UnderNine(line) ==
    IF Len(digitChars(line)) > 0 /\ Len(digitChars(line)) < 9
    THEN [i \in 1 .. Len(digitChars(line)) |-> parseInt(<<digitChars(line)[i]>>)]
         \o [i \in 1 .. 9 - Len(digitChars(line)) |-> 0]
    ELSE [k \in 1 .. Len(groupedMatches(line)) |-> parseInt(groupedMatches(line)[k])]

\* const numbers = ... of one line
numbers(line) ==
    IF Len(digitChars(line)) > 0 /\ Len(digitChars(line)) <= 9
    THEN [i \in 1 .. Len(digitChars(line)) |-> parseInt(<<digitChars(line)[i]>>)]
         \o [i \in 1 .. 9 - Len(digitChars(line)) |-> 0]
    ELSE [k \in 1 .. Len(groupedMatches(line)) |-> parseInt(groupedMatches(line)[k])]

\* `Row ${index + 1} has ${numbers.length} values, expected 9.`
rowMessage(index, count) ==
    "Row " \o ToString(index + 1) \o " has " \o ToString(count) \o " values, expected 9."

RECURSIVE forEachLine(_, _, _), forEachLine_FailFast(_, _, _)
\* as forEachLine, but giving up at the first row that has not 9 values
forEachLine_FailFast(lines, index, acc) ==
    IF index >= Len(lines) THEN acc
    ELSE LET nums == numbers(lines[index + 1])
         IN  IF Len(nums) = 0 THEN forEachLine_FailFast(lines, index + 1, acc)
             ELSE IF Len(nums) # 9
             THEN [rows |-> acc.rows,
                   errors |-> Append(acc.errors, rowMessage(index, Len(nums)))]
             ELSE forEachLine_FailFast(lines, index + 1,
                      [rows |-> Append(acc.rows, nums), errors |-> acc.errors])

\* lines.forEach((line, index) => ...) from index on; acc holds rows and
\* errors as pushed so far
forEachLine(lines, index, acc) ==
    IF index >= Len(lines) THEN acc
    ELSE LET nums == numbers(lines[index + 1])
         IN  forEachLine(lines, index + 1,
                 IF Len(nums) = 0 THEN acc
                 ELSE [rows |-> Append(acc.rows, nums),
                       errors |-> IF Len(nums) # 9
                                  THEN Append(acc.errors, rowMessage(index, Len(nums)))
                                  ELSE acc.errors])

\* as parsePuzzle, but counting the non-blank lines instead of the rows
parsePuzzle_CountLines(str) ==
    LET lines == SelectSeq([k \in 1 .. Len(splitLines(str)) |-> trim(splitLines(str)[k])],
                           LAMBDA line : Len(line) > 0)
        each == forEachLine(lines, 0, [rows |-> << >>, errors |-> << >>])
    IN  [rows |-> each.rows,
         errors |-> IF Len(lines) # 9
                    THEN Append(each.errors,
                             "Puzzle has " \o ToString(Len(lines)) \o " rows, expected 9.")
                    ELSE each.errors]

\* parsePuzzle(text): rows by value and errors, in the order pushed
parsePuzzle(str) ==
    LET lines == SelectSeq([k \in 1 .. Len(splitLines(str)) |-> trim(splitLines(str)[k])],
                           LAMBDA line : Len(line) > 0)
        each == forEachLine(lines, 0, [rows |-> << >>, errors |-> << >>])
    IN  [rows |-> each.rows,
         errors |-> IF Len(each.rows) # 9
                    THEN Append(each.errors,
                             "Puzzle has " \o ToString(Len(each.rows)) \o " rows, expected 9.")
                    ELSE each.errors]

-----------------------------------------------------------------------------
(* Transform notations *)

\* { from, to }
Pair(f, t) == [from |-> f, to |-> t]

\* [1-9]
IndexChars == DigitChars \ {"0"}

\* [\s,]
Separators == WhiteSpace \cup {","}

\* trimmed.split(","): the pieces between the commas
splitCommas(str) ==
    LET commas == {i \in 1 .. Len(str) : str[i] = ","}
        from(k) == IF k = 1 THEN 1 ELSE Kth(commas, k - 1) + 1
        upto(k) == IF k = Cardinality(commas) + 1 THEN Len(str)
                   ELSE Kth(commas, k) - 1
    IN  [k \in 1 .. Cardinality(commas) + 1 |-> SubSeq(str, from(k), upto(k))]

\* chunk.match(/^([1-9])(?:\s+|-)([1-9])$/) is not null
matchesPair(chunk) ==
    /\ Len(chunk) >= 3
    /\ chunk[1] \in IndexChars
    /\ chunk[Len(chunk)] \in IndexChars
    /\ \/ \A i \in 2 .. Len(chunk) - 1 : chunk[i] \in WhiteSpace
       \/ Len(chunk) = 3 /\ chunk[2] = "-"

\* the message of parsePairs
PairsMessage == "Use comma-separated pairs like 1 2,3-4."

\* as parsePairs, but keeping the pairs of the chunks that match
parsePairs_Partial(str) ==
    LET chunks == SelectSeq([k \in 1 .. Len(splitCommas(trim(str))) |->
                                trim(splitCommas(trim(str))[k])],
                            LAMBDA chunk : Len(chunk) > 0)
        good == SelectSeq(chunks, matchesPair)
    IN  IF Len(trim(str)) = 0 THEN [pairs |-> << >>, error |-> ""]
        ELSE IF Len(chunks) = 0 THEN [pairs |-> << >>, error |-> PairsMessage]
        ELSE [pairs |-> [k \in 1 .. Len(good) |->
                            Pair(parseInt(<<good[k][1]>>),
                                 parseInt(<<good[k][Len(good[k])]>>))],
              error |-> IF Len(good) = Len(chunks) THEN "" ELSE PairsMessage]

\* parsePairs(text); the loop returns the error at the first chunk that
\* does not match, so pairs are returned only when every chunk matches
parsePairs(str) ==
    LET chunks == SelectSeq([k \in 1 .. Len(splitCommas(trim(str))) |->
                                trim(splitCommas(trim(str))[k])],
                            LAMBDA chunk : Len(chunk) > 0)
    IN  IF Len(trim(str)) = 0 THEN [pairs |-> << >>, error |-> ""]
        ELSE IF Len(chunks) = 0 THEN [pairs |-> << >>, error |-> PairsMessage]
        ELSE IF \E k \in 1 .. Len(chunks) : ~matchesPair(chunks[k])
        THEN [pairs |-> << >>, error |-> PairsMessage]
        ELSE [pairs |-> [k \in 1 .. Len(chunks) |->
                            Pair(parseInt(<<chunks[k][1]>>),
                                 parseInt(<<chunks[k][Len(chunks[k])]>>))],
              error |-> ""]

RECURSIVE cycleMatches(_, _)
\* the matches of /\(([^)]+)\)/g in str from position start on, each as the
\* positions of its parentheses: the leftmost "(" whose next ")" is at
\* least two characters further, then the matches after that ")"
cycleMatches(str, start) ==
    LET closing(p) == {q \in p + 1 .. Len(str) : str[q] = ")"}
        opens == {p \in start .. Len(str) :
                     /\ str[p] = "("
                     /\ closing(p) # {}
                     /\ Kth(closing(p), 1) >= p + 2}
    IN  IF opens = {} THEN << >>
        ELSE <<[open |-> Kth(opens, 1), close |-> Kth(closing(Kth(opens, 1)), 1)]>>
             \o cycleMatches(str, Kth(closing(Kth(opens, 1)), 1) + 1)

\* cycleText.trim().split(/[\s,]+/).filter(Boolean): the maximal runs of
\* characters that are not separators
parts(cycleText) ==
    LET isPart(i) == i >= 1 /\ i <= Len(cycleText) /\ cycleText[i] \notin Separators
        starts == {i \in 1 .. Len(cycleText) : isPart(i) /\ ~isPart(i - 1)}
        ends == {i \in 1 .. Len(cycleText) : isPart(i) /\ ~isPart(i + 1)}
    IN  [k \in 1 .. Cardinality(starts) |->
            SubSeq(cycleText, Kth(starts, k), Kth(ends, k))]

\* every part of the cycle passes /^[1-9]$/, and there is a part
cycleParses(cycleText) ==
    /\ Len(parts(cycleText)) > 0
    /\ \A k \in 1 .. Len(parts(cycleText)) :
           Len(parts(cycleText)[k]) = 1 /\ parts(cycleText)[k][1] \in IndexChars

\* const values of one cycle
values(cycleText) ==
    [k \in 1 .. Len(parts(cycleText)) |-> parseInt(parts(cycleText)[k])]

\* as cyclePairs, without the pair from the last value to the first
cyclePairs_Open(cycleText) ==
    IF Len(values(cycleText)) < 2 THEN << >>
    ELSE [index \in 1 .. Len(values(cycleText)) - 1 |->
             Pair(values(cycleText)[index], values(cycleText)[index + 1])]

\* the pairs pushed for one cycle: none when it has fewer than 2 values
cyclePairs(cycleText) ==
    IF Len(values(cycleText)) < 2 THEN << >>
    ELSE [i \in 1 .. Len(values(cycleText)) |->
             LET index == i - 1
             IN  Pair(values(cycleText)[index + 1],
                      values(cycleText)[((index + 1) % Len(values(cycleText))) + 1])]

RECURSIVE forEachCycle(_, _)
\* the pairs pushed for the cycles from the k-th on
forEachCycle(cycles, k) ==
    IF k > Len(cycles) THEN << >>
    ELSE cyclePairs(cycles[k]) \o forEachCycle(cycles, k + 1)

\* the message of parseCycleNotation
CycleMessage == "Use cycle notation like (1 2 3)(4 5)."

\* parseCycleNotation(text); the loop returns the error at the first cycle
\* that does not parse, so pairs are returned only when every cycle parses
parseCycleNotation(str) ==
    LET trimmed == trim(str)
        found == cycleMatches(trimmed, 1)
        cycles == [k \in 1 .. Len(found) |->
                      SubSeq(trimmed, found[k].open + 1, found[k].close - 1)]
        leftover == {i \in 1 .. Len(trimmed) :
                        \A k \in 1 .. Len(found) :
                            i < found[k].open \/ i > found[k].close}
    IN  IF Len(trimmed) = 0 THEN [pairs |-> << >>, error |-> ""]
        ELSE IF Len(found) = 0 THEN [pairs |-> << >>, error |-> CycleMessage]
        ELSE IF \E i \in leftover : trimmed[i] \notin Separators
        THEN [pairs |-> << >>, error |-> CycleMessage]
        ELSE IF \E k \in 1 .. Len(cycles) : ~cycleParses(cycles[k])
        THEN [pairs |-> << >>, error |-> CycleMessage]
        ELSE [pairs |-> forEachCycle(cycles, 1), error |-> ""]

\* as validatePermutationPairs, but looking at the sources of all pairs
\* before any destination
validatePermutationPairs_SourcesFirst(pairs) ==
    IF \E i \in 1 .. Len(pairs) : \E j \in 1 .. i - 1 : pairs[j].from = pairs[i].from
    THEN "Each source index can only appear once."
    ELSE IF \E i \in 1 .. Len(pairs) : \E j \in 1 .. i - 1 : pairs[j].to = pairs[i].to
    THEN "Each destination index can only appear once."
    ELSE ""

\* validatePermutationPairs(pairs): the loop returns at the first pair
\* whose from or to was added by an earlier pair, testing from before to
validatePermutationPairs(pairs) ==
    LET seen == {i \in 1 .. Len(pairs) :
                    \E j \in 1 .. i - 1 : \/ pairs[j].from = pairs[i].from
                                          \/ pairs[j].to = pairs[i].to}
    IN  IF seen = {} THEN ""
        ELSE IF \E j \in 1 .. Kth(seen, 1) - 1 : pairs[j].from = pairs[Kth(seen, 1)].from
        THEN "Each source index can only appear once."
        ELSE "Each destination index can only appear once."

-----------------------------------------------------------------------------
(* Constraint checker *)

\* as isValid, without the column check
isValid_RowOnly(h, b, row, col, value) ==
    LET boxRow == (row \div Box) * Box
        boxCol == (col \div Box) * Box
    IN  /\ \A index \in Idx : ~CellIs(h, b, row, index, value)
        /\ \A r \in boxRow .. (boxRow + Box - 1) :
             \A c \in boxCol .. (boxCol + Box - 1) : ~CellIs(h, b, r, c, value)

isValid(h, b, row, col, value) ==
    LET boxRow == (row \div Box) * Box
        boxCol == (col \div Box) * Box
    IN  /\ \A index \in Idx :
             /\ ~CellIs(h, b, row, index, value)
             /\ ~CellIs(h, b, index, col, value)
        /\ \A r \in boxRow .. (boxRow + Box - 1) :
             \A c \in boxCol .. (boxCol + Box - 1) : ~CellIs(h, b, r, c, value)

-----------------------------------------------------------------------------
(* Solver *)

\* the first cell in row-major order with board[row][col] === 0, as
\* row * 9 + col; -1 when there is none
firstEmpty(h, b) ==
    LET empties == {i \in 0 .. (Size * Size - 1) :
                        Cell(h, b, i \div Size, i % Size) = 0}
    IN  IF empties = {} THEN -1
        ELSE CHOOSE i \in empties : \A j \in empties : i <= j

RECURSIVE solveBoard(_, _), tryValues(_, _, _, _, _)

\* as tryValues, but giving up when the first legal value fails
tryValues_NoBacktrack(h, b, row, col, value) ==
    IF value > 9 THEN [ok |-> FALSE, heap |-> h]
    ELSE IF isValid(h, b, row, col, value)
         THEN solveBoard(SetCell(h, b, row, col, value), b)
         ELSE tryValues(h, b, row, col, value + 1)

\* as tryValues, but trying the values from 9 down to 1
tryValues_Descending(h, b, row, col, value) ==
    IF value > 9 THEN [ok |-> FALSE, heap |-> h]
    ELSE IF isValid(h, b, row, col, 10 - value)
         THEN LET sub == solveBoard(SetCell(h, b, row, col, 10 - value), b)
              IN  IF sub.ok THEN sub
                  ELSE tryValues(SetCell(sub.heap, b, row, col, 0),
                                 b, row, col, value + 1)
         ELSE tryValues(h, b, row, col, value + 1)

\* the loop over value = 1..9 at the first empty cell
tryValues(h, b, row, col, value) ==
    IF value > 9 THEN [ok |-> FALSE, heap |-> h]
    ELSE IF isValid(h, b, row, col, value)
         THEN LET sub == solveBoard(SetCell(h, b, row, col, value), b)
              IN  IF sub.ok THEN sub
                  ELSE tryValues(SetCell(sub.heap, b, row, col, 0),
                                 b, row, col, value + 1)
         ELSE tryValues(h, b, row, col, value + 1)

solveBoard(h, b) ==
    LET e == firstEmpty(h, b)
    IN  IF e = -1 THEN [ok |-> TRUE, heap |-> h]
        ELSE tryValues(h, b, e \div Size, e % Size, 1)

\* as copyRows, but copying the outer array only: rows.slice()
copyRows_Shallow(h, b) == [heap |-> Append(h, h[b]), ret |-> Len(h) + 1]

\* const board = rows.map((row) => row.slice())
copyRows(h, b) == NewBoard(h, Deref(h, b))

\* as cellError, without the range check
cellError_NoRange(h, b, row, col) ==
    LET value == Cell(h, b, row, col)
    IN  IF value # 0 /\ ~isValid(SetCell(h, b, row, col, 0), b, row, col, value)
        THEN "Puzzle has conflicting values."
        ELSE NoError

\* the checks of the inner loop of solveSudoku at (row, col), made on the
\* board as it is there: every cell visited before has been restored
\* (line 200), so the board is the copy with this cell cleared
cellError(h, b, row, col) ==
    LET value == Cell(h, b, row, col)
    IN  IF value < 0 \/ value > 9 THEN "Values must be numbers 0-9."
        ELSE IF value # 0 /\ ~isValid(SetCell(h, b, row, col, 0), b, row, col, value)
             THEN "Puzzle has conflicting values."
             ELSE NoError

\* the checks of the outer loop of solveSudoku at row: the length of the
\* row, then its cells left to right; the heap is as the return leaves it
\* (a conflicting cell stays cleared)
rowError(h, b, row) ==
    IF Len(Row(h, b, row)) # 9
    THEN [error |-> "Row " \o ToString(row + 1) \o " must have 9 values.",
          heap |-> h]
    ELSE LET bad == {col \in Idx : cellError(h, b, row, col) # NoError}
         IN  IF bad = {} THEN [error |-> NoError, heap |-> h]
             ELSE LET col == CHOOSE c \in bad : \A d \in bad : c <= d
                      error == cellError(h, b, row, col)
                  IN  [error |-> error,
                       heap |-> IF error = "Puzzle has conflicting values."
                                THEN SetCell(h, b, row, col, 0) ELSE h]

\* the double loop of solveSudoku: it returns at the first row, in order,
\* that fails a check
checkBoard(h, b) ==
    LET bad == {row \in Idx : rowError(h, b, row).error # NoError}
    IN  IF bad = {} THEN [error |-> NoError, heap |-> h]
        ELSE rowError(h, b, CHOOSE r \in bad : \A q \in bad : r <= q)

\* solveSudoku(rows); searched tells whether solveBoard was called
solveSudoku(h, b) ==
    IF Len(h[b]) # 9
    THEN [solution |-> Null, error |-> "Puzzle must have 9 rows.",
          heap |-> h, searched |-> FALSE]
    ELSE LET copy == copyRows(h, b)
             checked == checkBoard(copy.heap, copy.ret)
         IN  IF checked.error # NoError
             THEN [solution |-> Null, error |-> checked.error,
                   heap |-> checked.heap, searched |-> FALSE]
             ELSE LET solved == solveBoard(checked.heap, copy.ret)
                  IN  IF ~solved.ok
                      THEN [solution |-> Null, error |-> "No solution found.",
                            heap |-> solved.heap, searched |-> TRUE]
                      ELSE [solution |-> copy.ret, error |-> NoError,
                            heap |-> solved.heap, searched |-> TRUE]

-----------------------------------------------------------------------------
(* Board transforms *)

\* a % n of JavaScript: the remainder has the sign of the dividend
JsRem(a, n) == IF a >= 0 THEN a % n ELSE -((-a) % n)

Reverse(s) == [i \in 1 .. Len(s) |-> s[Len(s) + 1 - i]]

\* as cloneBoard, but returning the grid it was given
cloneBoard_Alias(h, b) == [heap |-> h, ret |-> b]

\* rows.map((row) => row.slice())
cloneBoard(h, b) == NewBoard(h, Deref(h, b))

\* as normalizedShift, without the "+ 9" that makes it non-negative
normalizedShift_Remainder(shiftAmount) == JsRem(shiftAmount, 9)

\* const normalizedShift = ((shiftAmount % 9) + 9) % 9
normalizedShift(shiftAmount) == JsRem(JsRem(shiftAmount, 9) + 9, 9)

\* the arrow function of applyShift applied to one cell
shiftValue(value, shift) ==
    IF value = 0 THEN 0 ELSE JsRem(value - 1 + shift, 9) + 1

applyShift(h, b, shiftAmount) ==
    IF normalizedShift(shiftAmount) = 0 THEN cloneBoard(h, b)
    ELSE NewBoard(h, [r \in 1 .. Len(h[b]) |-> [i \in 1 .. Len(Deref(h, b)[r]) |->
             shiftValue(Deref(h, b)[r][i], normalizedShift(shiftAmount))]])

\* as mapValue, but applying the first pair of a source instead of the last
mapValue_FirstWins(value, pairs) ==
    LET hits == {i \in 1 .. Len(pairs) : pairs[i].from = value}
    IN  IF value = 0 THEN 0
        ELSE IF hits = {} THEN value
        ELSE pairs[CHOOSE i \in hits : \A j \in hits : i <= j].to

\* the arrow function of applyManualMapping applied to one cell:
\* digitMap.get(value) ?? value, where new Map(...) keeps each key's last entry
mapValue(value, pairs) ==
    LET hits == {i \in 1 .. Len(pairs) : pairs[i].from = value}
    IN  IF value = 0 THEN 0
        ELSE IF hits = {} THEN value
        ELSE pairs[CHOOSE i \in hits : \A j \in hits : i >= j].to

applyManualMapping(h, b, pairs) ==
    IF Len(pairs) = 0 THEN cloneBoard(h, b)
    ELSE NewBoard(h, [r \in 1 .. Len(h[b]) |-> [i \in 1 .. Len(Deref(h, b)[r]) |->
             mapValue(Deref(h, b)[r][i], pairs)]])

\* as writeRow, but reading the row from the result being built
writeRow_Cascade(h, source, res, pair) ==
    [h EXCEPT ![res] = [@ EXCEPT ![pair.to] = Len(h) + 1]]
        \o << h[h[res][pair.from]] >>

\* result[to - 1] = source[from - 1].slice()
writeRow(h, source, res, pair) ==
    [h EXCEPT ![res] = [@ EXCEPT ![pair.to] = Len(h) + 1]]
        \o << h[h[source][pair.from]] >>

RECURSIVE forEachRowPair(_, _, _, _, _)
\* pairs.forEach(...) of applyRowMapping from the i-th pair on
forEachRowPair(h, source, res, pairs, i) ==
    IF i > Len(pairs) THEN h
    ELSE forEachRowPair(writeRow(h, source, res, pairs[i]), source, res, pairs, i + 1)

applyRowMapping(h, b, pairs) ==
    IF Len(pairs) = 0 THEN cloneBoard(h, b)
    ELSE LET source == cloneBoard(h, b)
             res == cloneBoard(source.heap, b)
         IN  [heap |-> forEachRowPair(res.heap, source.ret, res.ret, pairs, 1),
              ret |-> res.ret]

\* for (row...) result[row][to - 1] = source[row][from - 1]: each row array
\* of result takes its cell from the same row of source
writeColumn(h, source, res, pair) ==
    [a \in 1 .. Len(h) |->
        LET hit == {row \in 1 .. Len(h[res]) : h[res][row] = a}
        IN  IF hit = {} THEN h[a]
            ELSE [h[a] EXCEPT ![pair.to] =
                     h[h[source][CHOOSE row \in hit : TRUE]][pair.from]]]

RECURSIVE forEachColumnPair(_, _, _, _, _)
\* pairs.forEach(...) of applyColumnMapping from the i-th pair on
forEachColumnPair(h, source, res, pairs, i) ==
    IF i > Len(pairs) THEN h
    ELSE forEachColumnPair(writeColumn(h, source, res, pairs[i]),
                           source, res, pairs, i + 1)

applyColumnMapping(h, b, pairs) ==
    IF Len(pairs) = 0 THEN cloneBoard(h, b)
    ELSE LET source == cloneBoard(h, b)
             res == cloneBoard(source.heap, b)
         IN  [heap |-> forEachColumnPair(res.heap, source.ret, res.ret, pairs, 1),
              ret |-> res.ret]

\* as rotateBoard, but with the inner loop of the 90 branch stopping one
\* column early (col < 8): the last column keeps its initial 0
rotateBoard_ShortLoop(h, b, degrees) ==
    LET normalized == JsRem(JsRem(degrees, 360) + 360, 360)
    IN  IF normalized = 0 THEN cloneBoard(h, b)
        ELSE IF normalized = 90
        THEN NewBoard(h, [row \in 1 .. 9 |-> [col \in 1 .. 9 |->
                 IF col = 9 THEN 0 ELSE Cell(h, b, 8 - (col - 1), row - 1)]])
        ELSE IF normalized = 180
        THEN NewBoard(h, [row \in 1 .. 9 |-> [col \in 1 .. 9 |->
                 Cell(h, b, 8 - (row - 1), 8 - (col - 1))]])
        ELSE NewBoard(h, [row \in 1 .. 9 |-> [col \in 1 .. 9 |->
                 Cell(h, b, col - 1, 8 - (row - 1))]])

rotateBoard(h, b, degrees) ==
    LET normalized == JsRem(JsRem(degrees, 360) + 360, 360)
    IN  IF normalized = 0 THEN cloneBoard(h, b)
        ELSE IF normalized = 90
        THEN NewBoard(h, [row \in 1 .. 9 |-> [col \in 1 .. 9 |->
                 Cell(h, b, 8 - (col - 1), row - 1)]])
        ELSE IF normalized = 180
        THEN NewBoard(h, [row \in 1 .. 9 |-> [col \in 1 .. 9 |->
                 Cell(h, b, 8 - (row - 1), 8 - (col - 1))]])
        ELSE NewBoard(h, [row \in 1 .. 9 |-> [col \in 1 .. 9 |->
                 Cell(h, b, col - 1, 8 - (row - 1))]])

transposeBoard(h, b) ==
    NewBoard(h, [row \in 1 .. 9 |-> [col \in 1 .. 9 |->
        Cell(h, b, col - 1, row - 1)]])

flipBoard(h, b, flipMode) ==
    IF flipMode = "none" THEN cloneBoard(h, b)
    ELSE IF flipMode = "horizontal" THEN NewBoard(h, [r \in 1 .. Len(h[b]) |-> Reverse(Deref(h, b)[r])])
    ELSE LET clone == cloneBoard(h, b)
         IN  [heap |-> [clone.heap EXCEPT ![clone.ret] = Reverse(@)],
              ret |-> clone.ret]

\* if (options.useTranspose) board = transposeBoard(board)
transposeIf(h, b, useTranspose) ==
    IF useTranspose THEN transposeBoard(h, b) ELSE [heap |-> h, ret |-> b]

\* as applyBoardTransforms, with the column permutation before the row one
\* and the transpose before the rotation
applyBoardTransforms_Reordered(h, b, opts) ==
    LET s0 == cloneBoard(h, b)
        s1 == applyShift(s0.heap, s0.ret, opts.shiftValue)
        s2 == applyManualMapping(s1.heap, s1.ret, opts.manualPairs)
        s3 == applyColumnMapping(s2.heap, s2.ret, opts.colPairs)
        s4 == applyRowMapping(s3.heap, s3.ret, opts.rowPairs)
        s5 == transposeIf(s4.heap, s4.ret, opts.useTranspose)
        s6 == rotateBoard(s5.heap, s5.ret, opts.rotationDegrees)
    IN  flipBoard(s6.heap, s6.ret, opts.flipMode)

applyBoardTransforms(h, b, opts) ==
    LET s0 == cloneBoard(h, b)
        s1 == applyShift(s0.heap, s0.ret, opts.shiftValue)
        s2 == applyManualMapping(s1.heap, s1.ret, opts.manualPairs)
        s3 == applyRowMapping(s2.heap, s2.ret, opts.rowPairs)
        s4 == applyColumnMapping(s3.heap, s3.ret, opts.colPairs)
        s5 == rotateBoard(s4.heap, s4.ret, opts.rotationDegrees)
        s6 == transposeIf(s5.heap, s5.ret, opts.useTranspose)
    IN  flipBoard(s6.heap, s6.ret, opts.flipMode)

\* as applySpatialTransforms, without the mirror step
applySpatialTransforms_NoFlip(h, b, opts) ==
    LET s0 == cloneBoard(h, b)
        s1 == applyRowMapping(s0.heap, s0.ret, opts.rowPairs)
        s2 == applyColumnMapping(s1.heap, s1.ret, opts.colPairs)
        s3 == rotateBoard(s2.heap, s2.ret, opts.rotationDegrees)
    IN  transposeIf(s3.heap, s3.ret, opts.useTranspose)

applySpatialTransforms(h, b, opts) ==
    LET s0 == cloneBoard(h, b)
        s1 == applyRowMapping(s0.heap, s0.ret, opts.rowPairs)
        s2 == applyColumnMapping(s1.heap, s1.ret, opts.colPairs)
        s3 == rotateBoard(s2.heap, s2.ret, opts.rotationDegrees)
        s4 == transposeIf(s3.heap, s3.ret, opts.useTranspose)
    IN  flipBoard(s4.heap, s4.ret, opts.flipMode)

-----------------------------------------------------------------------------
(* Comparison *)

\* as boardsAreEqual, but treating an empty cell as matching any value
boardsAreEqual_BlankMatches(h, a, b) ==
    IF a = Null \/ b = Null \/ Len(h[a]) # 9 \/ Len(h[b]) # 9 THEN FALSE
    ELSE \A row \in Idx :
             /\ Len(Row(h, a, row)) = 9 /\ Len(Row(h, b, row)) = 9
             /\ \A col \in Idx :
                    \/ Cell(h, a, row, col) = 0
                    \/ Cell(h, b, row, col) = 0
                    \/ Cell(h, a, row, col) = Cell(h, b, row, col)

\* the loops return false at the first failing row or cell and have no side
\* effect, so the result is the conjunction of their tests; a row's cells
\* are read only once both rows are known to have 9 values (the elements of
\* a grid are always row arrays, so !first[row] never holds)
boardsAreEqual(h, a, b) ==
    IF a = Null \/ b = Null \/ Len(h[a]) # 9 \/ Len(h[b]) # 9 THEN FALSE
    ELSE \A row \in Idx :
             /\ Len(Row(h, a, row)) = 9 /\ Len(Row(h, b, row)) = 9
             /\ \A col \in Idx : Cell(h, a, row, col) = Cell(h, b, row, col)

-----------------------------------------------------------------------------
(* Inputs *)

\* a solved grid
Base ==
    << <<5, 3, 4, 6, 7, 8, 9, 1, 2>>,
       <<6, 7, 2, 1, 9, 5, 3, 4, 8>>,
       <<1, 9, 8, 3, 4, 2, 5, 6, 7>>,
       <<8, 5, 9, 7, 6, 1, 4, 2, 3>>,
       <<4, 2, 6, 8, 5, 3, 7, 9, 1>>,
       <<7, 1, 3, 9, 2, 4, 8, 5, 6>>,
       <<9, 6, 1, 5, 3, 7, 2, 8, 4>>,
       <<2, 8, 7, 4, 1, 9, 6, 3, 5>>,
       <<3, 4, 5, 2, 8, 6, 1, 7, 9>> >>

\* the cells that may be blanked: four of them are the corners of a
\* rectangle of Base holding 4 2 / 2 4, so blanking all four leaves two
\* completions
BlankOrder == << <<2, 4>>, <<2, 5>>, <<5, 4>>, <<5, 5>>, <<0, 0>>, <<3, 1>> >>
BlankCells == {BlankOrder[i] : i \in 1 .. Len(BlankOrder)}

\* the cells that may be overwritten, and the values written there
PokeCells == {<<0, 1>>, <<2, 4>>}
PokeValues == (-1) .. 10

\* shape defects: rows missing or added, one row too short or too long
Shapes == {"empty", "drop", "extra", "short0", "short4", "long4"}

Blanked(g, K) ==
    [r \in 1 .. Len(g) |->
        [c \in 1 .. Len(g[r]) |-> IF <<r - 1, c - 1>> \in K THEN 0 ELSE g[r][c]]]

Poked(g, cell, v) == [g EXCEPT ![cell[1] + 1][cell[2] + 1] = v]

Shaped(g, s) ==
    CASE s = "empty" -> << >>
      [] s = "drop" -> SubSeq(g, 1, Len(g) - 1)
      [] s = "extra" -> Append(g, g[1])
      [] s = "short0" -> [g EXCEPT ![1] = SubSeq(g[1], 1, Len(g[1]) - 1)]
      [] s = "short4" -> [g EXCEPT ![5] = SubSeq(g[5], 1, Len(g[5]) - 1)]
      [] s = "long4" -> [g EXCEPT ![5] = Append(g[5], 0)]

\* Base with at most MaxBlanks of the BlankCells emptied
Puzzles ==
    {Blanked(Base, K) : K \in {S \in SUBSET BlankCells : Cardinality(S) <= MaxBlanks}}

\* a puzzle with one cell overwritten
PokedPuzzles ==
    {Poked(q, cell, v) : q \in Puzzles, cell \in PokeCells, v \in PokeValues}

\* Base, whole or with one cell overwritten, with a shape defect
MisshapenPuzzles ==
    {Shaped(p, s) : p \in {Base} \cup {Poked(Base, cell, v) :
                                         cell \in PokeCells, v \in PokeValues},
                    s \in Shapes}

SolveInputs == Puzzles \cup PokedPuzzles \cup MisshapenPuzzles

NoOptions ==
    [shiftValue |-> 0, manualPairs |-> << >>, rowPairs |-> << >>,
     colPairs |-> << >>, rotationDegrees |-> 0, useTranspose |-> FALSE,
     flipMode |-> "none"]

NoResult == [solution |-> Null, error |-> NoError, searched |-> FALSE]

\* no parser has run
NoParse == << >>

\* no component is mounted
NoApp ==
    /\ ui = << >>
    /\ shown = << >>
    /\ effects = {}
    /\ touched = {}
    /\ cache = << >>
    /\ fetches = << >>
    /\ failed = 0
    /\ hasty = 0

\* nothing is being compared or parsed
NoOthers ==
    /\ first = Null
    /\ second = Null
    /\ text = << >>
    /\ parsed = NoParse
    /\ NoApp

-----------------------------------------------------------------------------
(* The solver called on a grid *)

SolveInit ==
    /\ given \in SolveInputs
    /\ heap = HeapOf(given)
    /\ rows = Len(given) + 1
    /\ options = NoOptions
    /\ board = Null
    /\ overlay = Null
    /\ result = NoResult
    /\ calls = << >>
    /\ NoOthers

\* const { solution, error } = solveSudoku(rows)
SolveSudoku ==
    /\ calls = << >>
    /\ \E r \in {solveSudoku(heap, rows)} :
           /\ heap' = r.heap
           /\ result' = [solution |-> r.solution, error |-> r.error,
                         searched |-> r.searched]
           /\ board' = r.solution
    /\ calls' = Append(calls, "solveSudoku")
    /\ UNCHANGED <<rows, given, options, overlay, others>>

\* solveSudoku called once more, on another puzzle that holds an equal
\* grid; what it returned is kept next to the first result
SolveAgain ==
    /\ calls = <<"solveSudoku">>
    /\ \E copy \in {NewBoard(heap, given)} :
       \E r \in {solveSudoku(copy.heap, copy.ret)} :
           /\ heap' = r.heap
           /\ second' = copy.ret
           /\ result' = [solution |-> result.solution, error |-> result.error,
                         searched |-> result.searched,
                         again |-> [solution |-> r.solution, error |-> r.error]]
    /\ calls' = Append(calls, "solveSudoku")
    /\ UNCHANGED <<rows, given, options, board, overlay, first, text, parsed, app>>

SolveNext == SolveSudoku \/ SolveAgain

SolveSpec == SolveInit /\ [][SolveNext]_vars

-----------------------------------------------------------------------------
(* The transforms called on a grid *)

\* Base with the first n of the BlankOrder cells emptied, n <= MaxBlanks
\* and, not a legal grid, Base with one cell emptied or repeating a value
TransformGrids ==
    {Blanked(Base, {BlankOrder[i] : i \in 1 .. n}) :
        n \in 0 .. (IF MaxBlanks < Len(BlankOrder) THEN MaxBlanks ELSE Len(BlankOrder))}
    \cup {Poked(Base, <<0, 1>>, v) : v \in {0, 5}}

\* the grid the next chained call is made on
Current == IF board = Null THEN rows ELSE board

\* the start of every transform specification, but for the options
TransformInit ==
    /\ given \in TransformGrids
    /\ heap = HeapOf(given)
    /\ rows = Len(given) + 1
    /\ board = Null
    /\ overlay = Null
    /\ result = NoResult
    /\ calls = << >>
    /\ NoOthers

\* board = F(board) with the call recorded
Returned(r, name) ==
    /\ heap' = r.heap
    /\ board' = r.ret
    /\ calls' = Append(calls, name)
    /\ UNCHANGED <<rows, given, options, overlay, result, others>>

(* Spatial calls chained on one grid *)

SpatialInit == TransformInit /\ options = NoOptions

Rotate ==
    /\ Len(calls) < MaxCalls
    /\ \E r \in {rotateBoard(heap, Current, 90)} : Returned(r, "rotateBoard(90)")

Transpose ==
    /\ Len(calls) < MaxCalls
    /\ \E r \in {transposeBoard(heap, Current)} : Returned(r, "transposeBoard")

Flip ==
    /\ Len(calls) < MaxCalls
    /\ \E mode \in {"horizontal", "vertical"} :
         \E r \in {flipBoard(heap, Current, mode)} :
             Returned(r, "flipBoard(" \o mode \o ")")

SpatialNext == Rotate \/ Transpose \/ Flip

SpatialSpec == SpatialInit /\ [][SpatialNext]_vars

(* A shift and the shift that undoes it *)

ShiftAmounts == (-MaxShift) .. MaxShift

ShiftInit ==
    /\ TransformInit
    /\ \E s \in ShiftAmounts : options = [NoOptions EXCEPT !.shiftValue = s]

Shift ==
    /\ calls = << >>
    /\ \E r \in {applyShift(heap, rows, options.shiftValue)} :
           Returned(r, "applyShift(s)")

ShiftBack ==
    /\ calls = <<"applyShift(s)">>
    /\ \E r \in {applyShift(heap, board, 9 - options.shiftValue)} :
           Returned(r, "applyShift(9-s)")

ShiftNext == Shift \/ ShiftBack

ShiftSpec == ShiftInit /\ [][ShiftNext]_vars

(* A row or column permutation *)

MapIndices == {1, 2, 5, 9}

RECURSIVE SeqsUpTo(_, _)
\* the sequences over S of length at most n
SeqsUpTo(S, n) ==
    IF n = 0 THEN {<< >>}
    ELSE LET shorter == SeqsUpTo(S, n - 1)
         IN  shorter \cup {Append(q, x) : q \in shorter, x \in S}

PairSeqs == SeqsUpTo({Pair(f, t) : f \in MapIndices, t \in MapIndices}, MaxPairs)

MappingInit ==
    /\ TransformInit
    /\ \E pairs \in PairSeqs :
           options = [NoOptions EXCEPT !.rowPairs = pairs, !.colPairs = pairs]

RowMapping ==
    /\ calls = << >>
    /\ \E r \in {applyRowMapping(heap, rows, options.rowPairs)} :
           Returned(r, "applyRowMapping")

ColumnMapping ==
    /\ calls = << >>
    /\ \E r \in {applyColumnMapping(heap, rows, options.colPairs)} :
           Returned(r, "applyColumnMapping")

MappingNext == RowMapping \/ ColumnMapping

MappingSpec == MappingInit /\ [][MappingNext]_vars

(* A relabelling of the values *)

\* the values the relabelling pairs are made of
RelabelValues == {1, 2, 3}

RelabelInit ==
    /\ TransformInit
    /\ \E pairs \in SeqsUpTo({Pair(f, t) : f \in RelabelValues, t \in RelabelValues},
                              MaxPairs) :
           options = [NoOptions EXCEPT !.manualPairs = pairs]

\* board = applyManualMapping(board, options.manualPairs)
ManualMapping ==
    /\ calls = << >>
    /\ \E r \in {applyManualMapping(heap, rows, options.manualPairs)} :
           Returned(r, "applyManualMapping")

RelabelNext == ManualMapping

RelabelSpec == RelabelInit /\ [][RelabelNext]_vars

(* The whole pipeline and its spatial part *)

PipelineOptions ==
    [shiftValue : {0, 4, -13},
     manualPairs : {<< >>, <<Pair(1, 2), Pair(2, 3), Pair(1, 4)>>},
     rowPairs : {<< >>, <<Pair(1, 2), Pair(2, 9)>>, <<Pair(1, 5), Pair(9, 5)>>},
     colPairs : {<< >>, <<Pair(1, 2), Pair(2, 9)>>},
     rotationDegrees : {0, 90, 180, 270},
     useTranspose : BOOLEAN,
     flipMode : {"none", "horizontal", "vertical"}]

PipelineInit == TransformInit /\ options \in PipelineOptions

\* transformedRows: applyBoardTransforms(baseDisplayRows, transformOptions)
BoardTransforms ==
    /\ board = Null
    /\ \E r \in {applyBoardTransforms(heap, rows, options)} :
           Returned(r, "applyBoardTransforms")

\* transformedOriginalOverlayRows:
\* applySpatialTransforms(baseDisplayRows, transformOptions)
SpatialTransforms ==
    /\ overlay = Null
    /\ \E r \in {applySpatialTransforms(heap, rows, options)} :
           /\ heap' = r.heap
           /\ overlay' = r.ret
           /\ calls' = Append(calls, "applySpatialTransforms")
           /\ UNCHANGED <<rows, given, options, board, result, others>>

PipelineNext == BoardTransforms \/ SpatialTransforms

PipelineSpec == PipelineInit /\ [][PipelineNext]_vars

-----------------------------------------------------------------------------
(* Two grids compared *)

\* the grids compared: legal ones, one repeating a value, misshapen ones
EqualGrids == TransformGrids \cup {Shaped(Base, s) : s \in Shapes}

\* both grids are allocated; either reference may be missing (null)
EqualInit ==
    /\ \E a \in EqualGrids, b \in EqualGrids :
         \E A \in {NewBoard(<< >>, a)} :
         \E B \in {NewBoard(A.heap, b)} :
             /\ heap = B.heap
             /\ first \in {Null, A.ret}
             /\ second \in {Null, B.ret}
    /\ rows = Null
    /\ given = << >>
    /\ options = NoOptions
    /\ board = Null
    /\ overlay = Null
    /\ result = << >>
    /\ calls = << >>
    /\ text = << >>
    /\ parsed = NoParse
    /\ NoApp

\* the call named name returned value: result[name] becomes value
Recorded(name, value) ==
    /\ name \notin DOMAIN result
    /\ result' = [n \in DOMAIN result \cup {name} |->
                     IF n = name THEN value ELSE result[n]]
    /\ calls' = Append(calls, name)
    /\ UNCHANGED <<heap, rows, given, options, board, overlay, first, second,
                   text, parsed, app>>

\* boardsAreEqual(transformedRows, compareBaseRows)
Compare == Recorded("first,second", boardsAreEqual(heap, first, second))

\* the same call with its arguments exchanged
CompareSwapped == Recorded("second,first", boardsAreEqual(heap, second, first))

\* a grid compared with itself
CompareSelf == Recorded("first,first", boardsAreEqual(heap, first, first))

EqualNext == Compare \/ CompareSwapped \/ CompareSelf

EqualSpec == EqualInit /\ [][EqualNext]_vars

-----------------------------------------------------------------------------
(* A puzzle file parsed, and solved when it has no diagnostic *)

\* the character of a digit
DigitChar(v) == SubSeq("0123456789", v + 1, v + 1)

\* a row of single digits written without separators, or with sep between
\* the digits and white space around the line
FormatRow(row, fmt) ==
    IF fmt = "compact" THEN [i \in 1 .. Len(row) |-> DigitChar(row[i])]
    ELSE <<" ">>
         \o [i \in 1 .. 2 * Len(row) - 1 |->
                IF i % 2 = 1 THEN DigitChar(row[(i + 1) \div 2])
                ELSE IF fmt = "spaced" THEN " " ELSE ","]
         \o <<"\t">>

\* lines that are not a row of nine digits: blank, without a digit, with
\* fewer than 9 digits, with runs of several digits, with 10 digits
OddLines ==
    {Chars(""), Chars(" \t "), Chars("-- sudoku --"), Chars("53"), Chars("12 34"),
     Chars("x9\r"), Chars("1234567890"), Chars("1 2 3 4 5 6 7 8 9 1"),
     Chars("12 3 4 5 6 7 8 9 1"), Chars("1 2 3 4 5 6 7 8 91")}

\* where a line is replaced or inserted
EditAt == {1, 5, 9}

\* the lines of a file: a grid's rows, with at most one line replaced or
\* inserted, and at most MaxDropped lines cut off the end
FileLines ==
    LET whole == {[r \in 1 .. 9 |-> FormatRow(g[r], fmt)] :
                     g \in {Base, Blanked(Base, {<<0, 0>>, <<3, 1>>})},
                     fmt \in {"compact", "spaced", "comma"}}
        edited == whole
                  \cup {[w EXCEPT ![k] = line] :
                           w \in whole, k \in EditAt, line \in OddLines}
                  \cup {SubSeq(w, 1, k - 1) \o <<line>> \o SubSeq(w, k, 9) :
                           w \in whole, k \in EditAt, line \in OddLines}
    IN  {SubSeq(e, 1, Len(e) - n) : e \in edited, n \in 0 .. MaxDropped}

RECURSIVE Join(_, _)
\* the lines, each followed by eol
Join(lines, eol) ==
    IF Len(lines) = 0 THEN << >>
    ELSE Head(lines) \o eol \o Join(Tail(lines), eol)

\* the lines with eol between them, and after the last when eol is CR LF
FileText(lines, eol) ==
    IF eol = Chars("\r\n") THEN Join(lines, eol)
    ELSE SubSeq(Join(lines, eol), 1, Len(Join(lines, eol)) - Len(eol))

ParseInit ==
    /\ given \in FileLines
    /\ text \in {FileText(given, eol) : eol \in {Chars("\n"), Chars("\r\n")}}
    /\ parsed = NoParse
    /\ heap = << >>
    /\ rows = Null
    /\ options = NoOptions
    /\ board = Null
    /\ overlay = Null
    /\ result = NoResult
    /\ calls = << >>
    /\ first = Null
    /\ second = Null
    /\ NoApp

\* const parsed = parsePuzzle(text); const result = { ...entry, ...parsed }
ParsePuzzle ==
    /\ calls = << >>
    /\ \E r \in {parsePuzzle(text)} :
           /\ parsed' = r
           /\ heap' = HeapOf(r.rows)
           /\ rows' = Len(r.rows) + 1
    /\ calls' = Append(calls, "parsePuzzle")
    /\ UNCHANGED <<given, options, board, overlay, result, first, second, text, app>>

\* Show solved, enabled when the puzzle has no diagnostic:
\* const { solution, error } = solveSudoku(activePuzzle.rows)
SolveParsed ==
    /\ calls = <<"parsePuzzle">>
    /\ Len(parsed.errors) = 0
    /\ \E r \in {solveSudoku(heap, rows)} :
           /\ heap' = r.heap
           /\ result' = [solution |-> r.solution, error |-> r.error,
                         searched |-> r.searched]
           /\ board' = r.solution
    /\ calls' = Append(calls, "solveSudoku")
    /\ UNCHANGED <<rows, given, options, overlay, others>>

ParseNext == ParsePuzzle \/ SolveParsed

ParseSpec == ParseInit /\ [][ParseNext]_vars

-----------------------------------------------------------------------------
(* A transform field parsed, and validated when it parses *)

\* pieces of a relabel field: pairs in both forms, blank chunks, chunks
\* that are not pairs
PairChunks ==
    {Chars("6 8"), Chars("5-7"), Chars(" 1 \t2 "), Chars(""), Chars(" "),
     Chars("3--4"), Chars("12"), Chars("0 1"), Chars("1 2 3"), Chars("7-"),
     Chars("a-b"), Chars("9 -1")}

\* pieces of a row or column map field: cycles, cycles of one value or
\* repeating a value, groups that are not cycles, text outside groups
CycleGroups ==
    {Chars("(1 2 3)"), Chars("(4 5)"), Chars("(5,4)"), Chars("( 6  7 )"),
     Chars("(8, ,9)"), Chars("(3)"), Chars("(1 1)"), Chars("()"), Chars("(1 x)"),
     Chars("(12)"), Chars("(0 1)"), Chars("(1 2"), Chars("x"), Chars(" "), Chars(",")}

\* the pieces with commas between them
JoinCommas(pieces) ==
    IF Len(pieces) = 0 THEN << >>
    ELSE SubSeq(Join(pieces, <<",">>), 1, Len(Join(pieces, <<",">>)) - 1)

NotationInit ==
    /\ \/ /\ given \in [kind : {"pairs"}, pieces : SeqsUpTo(PairChunks, MaxChunks)]
          /\ text = JoinCommas(given.pieces)
       \/ /\ given \in [kind : {"cycles"}, pieces : SeqsUpTo(CycleGroups, MaxChunks)]
          /\ text = Join(given.pieces, << >>)
    /\ parsed = NoParse
    /\ heap = << >>
    /\ rows = Null
    /\ options = NoOptions
    /\ board = Null
    /\ overlay = Null
    /\ result = NoResult
    /\ calls = << >>
    /\ first = Null
    /\ second = Null
    /\ NoApp

\* parsedManualMapping = parsePairs(manualMapInput)
ParsePairs ==
    /\ calls = << >>
    /\ parsed' = parsePairs(text)
    /\ calls' = Append(calls, "parsePairs")
    /\ UNCHANGED <<heap, rows, given, options, board, overlay, result,
                   first, second, text, app>>

\* parsedRowMapping = parseCycleNotation(rowMapInput)
ParseCycleNotation ==
    /\ calls = << >>
    /\ parsed' = parseCycleNotation(text)
    /\ calls' = Append(calls, "parseCycleNotation")
    /\ UNCHANGED <<heap, rows, given, options, board, overlay, result,
                   first, second, text, app>>

\* rowMapError = parsedRowMapping.error ? parsedRowMapping.error
\*                   : validatePermutationPairs(parsedRowMapping.pairs)
ValidateParsed ==
    /\ calls = <<"parseCycleNotation">>
    /\ parsed.error = ""
    /\ result' = validatePermutationPairs(parsed.pairs)
    /\ calls' = Append(calls, "validatePermutationPairs")
    /\ UNCHANGED <<heap, rows, given, options, board, overlay,
                   first, second, text, parsed, app>>

NotationNext == ParsePairs \/ ParseCycleNotation \/ ValidateParsed

NotationSpec == NotationInit /\ [][NotationNext]_vars

(* Pair sequences validated *)

\* the indices the validated pairs are made of
CheckedIndices == {1, 2, 5}

\* the pairs with source and destination exchanged
Inverse(pairs) == [i \in 1 .. Len(pairs) |-> Pair(pairs[i].to, pairs[i].from)]

ValidateInit ==
    /\ \E pairs \in SeqsUpTo({Pair(f, t) : f \in CheckedIndices, t \in CheckedIndices},
                              MaxChecked) :
           options = [NoOptions EXCEPT !.rowPairs = pairs, !.colPairs = Inverse(pairs)]
    /\ given = << >>
    /\ heap = << >>
    /\ rows = Null
    /\ board = Null
    /\ overlay = Null
    /\ result = << >>
    /\ calls = << >>
    /\ NoOthers

\* rowMapError, for a field that parsed
RowMapError == Recorded("rowMapError", validatePermutationPairs(options.rowPairs))

\* colMapError, for a field that parsed
ColMapError == Recorded("colMapError", validatePermutationPairs(options.colPairs))

ValidateNext == RowMapError \/ ColMapError

ValidateSpec == ValidateInit /\ [][ValidateNext]_vars

-----------------------------------------------------------------------------
(* The mounted component: its state, what a render derives from it, its    *)
(* effects and its event handlers.  An event handler runs when no effect   *)
(* is pending; Render commits the state that the handlers and the effects  *)
(* have set and schedules the effects whose dependencies changed.  A load  *)
(* that was started awaits its answer in fetches; what the code does with  *)
(* the answers of the files of one page is one step.  A handler or an      *)
(* answer runs when the latest state is rendered and no effect is pending. *)
(* The search is the plain one (useRegexSearch stays false).               *)

\* null for a name (no puzzle has an empty name, and both are falsy)
NoName == ""

\* null or undefined for a puzzle
NoPuzzle == [name |-> NoName, file |-> "", rows |-> Null, errors |-> << >>]

\* an entry of index.json
Entry(name) == [name |-> name, file |-> name \o ".txt"]

\* an index.json: one puzzle that 25 does not divide and two that it does
IndexJson == <<Entry("7"), Entry("25"), Entry("50")>>

\* an index.json whose files hold one row each: one puzzle that 25 does
\* not divide and two that it does
ShortIndex == <<Entry("10"), Entry("75"), Entry("100")>>

\* an index.json without a puzzle that 25 divides
LoneIndex == <<Entry("10")>>

\* an index of two
PairIndex == <<Entry("10"), Entry("75")>>

\* an index.json that fills more than one page of the solved view:
\* 75, 100, ..., 525
LongIndex == [i \in 1 .. 19 |-> Entry(ToString(25 * (i + 2)))]

\* the grid whose rows a served file holds: the grid of 7 has no
\* completion, the others have one
GridOf(file) ==
    IF file = "7.txt" THEN Poked(Blanked(Base, {<<0, 0>>, <<3, 1>>}), <<0, 1>>, 5)
    ELSE Blanked(Base, {<<0, 0>>, <<3, 1>>})

\* how many rows a served file holds: nine for 7 and 25, eight for 50,
\* one for every other file
RowsOf(file) ==
    IF file \in {"7.txt", "25.txt"} THEN 9 ELSE IF file = "50.txt" THEN 8 ELSE 1

\* the text of a served file
FileOf(file) ==
    IF file = "50.txt"
    THEN FileText([r \in 1 .. RowsOf(file) |-> FormatRow(GridOf(file)[r], "spaced")],
                  Chars("\r\n"))
    ELSE FileText([r \in 1 .. RowsOf(file) |-> FormatRow(GridOf(file)[r], "compact")],
                  Chars("\n"))

\* String(error) of a fetch that failed
FetchError == "TypeError: Failed to fetch"

\* the useState initial values
InitialState ==
    [manifest |-> << >>, puzzles |-> << >>, loading |-> TRUE,
     activePuzzleName |-> NoName, activeView |-> "browse",
     solutions |-> << >>, solveErrors |-> << >>, searchTerm |-> "", page |-> 1,
     showSolved |-> FALSE,
     shiftInput |-> "0", manualMapInput |-> "", rowMapInput |-> "",
     colMapInput |-> "", rotationDegrees |-> "0", useTranspose |-> FALSE,
     flipMode |-> "none", compareInput |-> "", compareName |-> "",
     compareLoading |-> FALSE, compareError |-> ""]

\* map[name], none when the key is missing
Lookup(map, name, none) == IF name \in DOMAIN map THEN map[name] ELSE none

\* { ...existing, [name]: value }
With(existing, name, value) ==
    [n \in DOMAIN existing \cup {name} |-> IF n = name THEN value ELSE existing[n]]

\* Number.parseInt(str, 10): leading white space, a sign, then the longest
\* run of digits; NaN (finite is FALSE) when there is no digit
NumberParseInt(str) ==
    LET t == trim(Chars(str))
        signed == Len(t) > 0 /\ t[1] \in {"-", "+"}
        body == IF signed THEN Tail(t) ELSE t
        stops == {i \in 1 .. Len(body) : body[i] \notin DigitChars}
        n == IF stops = {} THEN Len(body) ELSE Kth(stops, 1) - 1
    IN  IF n = 0 THEN [finite |-> FALSE, value |-> 0]
        ELSE [finite |-> TRUE,
              value |-> IF signed /\ t[1] = "-" THEN 0 - parseInt(SubSeq(body, 1, n))
                        ELSE parseInt(SubSeq(body, 1, n))]

\* Number.parseInt(str, 10) || 0
OrZero(str) == IF NumberParseInt(str).finite THEN NumberParseInt(str).value ELSE 0

(* What a render derives from the state u *)

mod25Manifest(u) ==
    SelectSeq(u.manifest,
              LAMBDA entry : /\ NumberParseInt(entry.name).finite
                             /\ NumberParseInt(entry.name).value % 25 = 0)

viewManifest(u) == IF u.activeView = "solved_mod25" THEN mod25Manifest(u) ELSE u.manifest

pageSize(u) == IF u.activeView = "solved_mod25" THEN 18 ELSE 60

maxSearchResults == 200

\* toLowerCase() of a sequence of characters
toLowerCase(chars) ==
    [i \in 1 .. Len(chars) |->
        IF \E k \in 1 .. 26 : Chars("ABCDEFGHIJKLMNOPQRSTUVWXYZ")[k] = chars[i]
        THEN Chars("abcdefghijklmnopqrstuvwxyz")[
                 CHOOSE k \in 1 .. 26 : Chars("ABCDEFGHIJKLMNOPQRSTUVWXYZ")[k] = chars[i]]
        ELSE chars[i]]

\* whole.includes(part)
includes(whole, part) ==
    \E at \in 1 .. Len(whole) + 1 :
        /\ at + Len(part) - 1 <= Len(whole)
        /\ SubSeq(whole, at, at + Len(part) - 1) = part

\* searchConfig.predicate(entry), useRegexSearch being false
searchPredicate(u, entry) ==
    \/ Len(trim(Chars(u.searchTerm))) = 0
    \/ includes(toLowerCase(Chars(entry.name)), toLowerCase(trim(Chars(u.searchTerm))))

filteredManifest(u) == SelectSeq(viewManifest(u), LAMBDA entry : searchPredicate(u, entry))

isSearching(u) == Len(trim(Chars(u.searchTerm))) > 0

\* Math.max(1, Math.ceil(filteredManifest.length / pageSize))
totalPages(u) ==
    IF Len(filteredManifest(u)) = 0 THEN 1
    ELSE (Len(filteredManifest(u)) + pageSize(u) - 1) \div pageSize(u)

\* Math.min(page, totalPages)
safePage(u) == IF u.page < totalPages(u) THEN u.page ELSE totalPages(u)

\* the entries that loadPagePuzzles loads: filteredManifest.slice(...)
pageEntries(u) ==
    IF isSearching(u)
    THEN SubSeq(filteredManifest(u), 1,
                IF Len(filteredManifest(u)) < maxSearchResults
                THEN Len(filteredManifest(u)) ELSE maxSearchResults)
    ELSE SubSeq(filteredManifest(u), (safePage(u) - 1) * pageSize(u) + 1,
                IF Len(filteredManifest(u)) < safePage(u) * pageSize(u)
                THEN Len(filteredManifest(u)) ELSE safePage(u) * pageSize(u))

\* puzzleCacheRef.current.get(name)
cacheGet(name) == Lookup(cache, name, NoPuzzle)

\* puzzles.find((puzzle) => puzzle.name === name)
find(puzzles, name) ==
    LET at == {i \in 1 .. Len(puzzles) : puzzles[i].name = name}
    IN  IF at = {} THEN NoPuzzle ELSE puzzles[Kth(at, 1)]

activePuzzle(u) ==
    IF u.activePuzzleName = NoName THEN NoPuzzle
    ELSE IF cacheGet(u.activePuzzleName) # NoPuzzle THEN cacheGet(u.activePuzzleName)
    ELSE find(u.puzzles, u.activePuzzleName)

activeSolution(u) ==
    IF activePuzzle(u) # NoPuzzle THEN Lookup(u.solutions, activePuzzle(u).name, Null)
    ELSE Null

comparePuzzle(u) == IF u.compareName # "" THEN cacheGet(u.compareName) ELSE NoPuzzle

compareSolution(u) ==
    IF comparePuzzle(u) # NoPuzzle THEN Lookup(u.solutions, comparePuzzle(u).name, Null)
    ELSE Null

parsedManualMapping(u) == parsePairs(Chars(u.manualMapInput))

parsedRowMapping(u) == parseCycleNotation(Chars(u.rowMapInput))

parsedColMapping(u) == parseCycleNotation(Chars(u.colMapInput))

rowMapError(u) ==
    IF parsedRowMapping(u).error # "" THEN parsedRowMapping(u).error
    ELSE validatePermutationPairs(parsedRowMapping(u).pairs)

colMapError(u) ==
    IF parsedColMapping(u).error # "" THEN parsedColMapping(u).error
    ELSE validatePermutationPairs(parsedColMapping(u).pairs)

\* Null where the source has undefined
baseDisplayRows(u) ==
    IF activePuzzle(u) # NoPuzzle /\ u.showSolved /\ activeSolution(u) # Null
    THEN activeSolution(u)
    ELSE activePuzzle(u).rows

canApplyTransforms(u) ==
    /\ activePuzzle(u) # NoPuzzle
    /\ Len(activePuzzle(u).errors) = 0
    /\ parsedManualMapping(u).error = ""
    /\ rowMapError(u) = ""
    /\ colMapError(u) = ""

hasActiveTransforms(u) ==
    \/ OrZero(u.shiftInput) # 0
    \/ Len(parsedManualMapping(u).pairs) > 0
    \/ Len(parsedRowMapping(u).pairs) > 0
    \/ Len(parsedColMapping(u).pairs) > 0
    \/ OrZero(u.rotationDegrees) # 0
    \/ u.useTranspose
    \/ u.flipMode # "none"

transformOptions(u) ==
    [shiftValue |-> OrZero(u.shiftInput),
     manualPairs |-> parsedManualMapping(u).pairs,
     rowPairs |-> parsedRowMapping(u).pairs,
     colPairs |-> parsedColMapping(u).pairs,
     rotationDegrees |-> OrZero(u.rotationDegrees),
     useTranspose |-> u.useTranspose,
     flipMode |-> u.flipMode]

\* the grid shown as Primary: a fresh grid in a heap that extends heap
transformedRows(u) ==
    IF baseDisplayRows(u) = Null THEN NewBoard(heap, << >>)
    ELSE IF ~canApplyTransforms(u) THEN cloneBoard(heap, baseDisplayRows(u))
    ELSE applyBoardTransforms(heap, baseDisplayRows(u), transformOptions(u))

\* the givens of the grid shown as Primary
transformedBaseRows(u) ==
    IF activePuzzle(u) = NoPuzzle THEN NewBoard(heap, << >>)
    ELSE IF ~canApplyTransforms(u) THEN cloneBoard(heap, activePuzzle(u).rows)
    ELSE applyBoardTransforms(heap, activePuzzle(u).rows, transformOptions(u))

\* the original-orientation overlay; ret is Null where the source has
\* undefined
transformedOriginalOverlayRows(u) ==
    IF baseDisplayRows(u) = Null \/ ~hasActiveTransforms(u)
    THEN [heap |-> heap, ret |-> Null]
    ELSE applySpatialTransforms(heap, baseDisplayRows(u), transformOptions(u))

compareBaseRows(u) ==
    IF comparePuzzle(u) # NoPuzzle /\ u.showSolved /\ compareSolution(u) # Null
    THEN compareSolution(u)
    ELSE comparePuzzle(u).rows

isMatchWithCompare(u) ==
    /\ hasActiveTransforms(u)
    /\ compareBaseRows(u) # Null
    /\ Len(comparePuzzle(u).errors) = 0
    /\ boardsAreEqual(transformedRows(u).heap, transformedRows(u).ret, compareBaseRows(u))

(* The component's steps *)

\* the variables that the component never touches
apart == <<rows, given, options, board, overlay, result, first, second, text, parsed>>

\* the effects, in the order the component declares them
EffectOrder == <<"loadManifest", "loadPagePuzzles", "resetFields", "resetPage",
                 "solveCompare", "solveBatch">>

\* what the transform fields may be set to
ShiftInputs == {"0", "4"}
ManualMapInputs == {"", "1 2", "1-"}
RowMapInputs == {"", "(1 2)", "(1"}
ColMapInputs == {"", "(1 9)"}
RotationInputs == {"0", "90"}
FlipModes == {"none", "horizontal"}

\* what the compare field may be set to: nothing, the first listed id with
\* blanks around it, any other listed id
CompareInputs ==
    {""} \cup {" " \o given[i].name \o " " : i \in DOMAIN given \cap {1}}
         \cup {given[i].name : i \in DOMAIN given \ {1}}

\* what the search box may be set to
SearchTerms == {"", " 5"}

\* the component as mounted, the server holding index: every effect is due
Mounted(index) ==
    /\ ui = InitialState
    /\ shown = InitialState
    /\ effects = {EffectOrder[i] : i \in 1 .. Len(EffectOrder)}
    /\ touched = {}
    /\ cache = << >>
    /\ fetches = << >>
    /\ failed = 0
    /\ hasty = 0
    /\ heap = << >>
    /\ calls = << >>
    /\ rows = Null
    /\ given = index
    /\ options = NoOptions
    /\ board = Null
    /\ overlay = Null
    /\ result = NoResult
    /\ first = Null
    /\ second = Null
    /\ text = << >>
    /\ parsed = NoParse

AppInit == Mounted(IndexJson)

\* solveSudoku called on the rows of the puzzle named name, by the handler
\* or the effect named by
Call(name, by) == [fn |-> "solveSudoku", on |-> name, by |-> by]

\* the effects whose dependencies differ between the render of old and
\* the render of new, set naming the fields that hold a new object
Due(old, new, set) ==
    {e \in {"loadPagePuzzles"} :
        \/ "manifest" \in set
        \/ old.activeView # new.activeView
        \/ old.searchTerm # new.searchTerm
        \/ old.page # new.page}
    \cup {e \in {"resetFields"} :
        \/ old.activePuzzleName # new.activePuzzleName
        \/ old.activeView # new.activeView}
    \cup {e \in {"resetPage"} : old.activeView # new.activeView}
    \cup {e \in {"solveCompare"} :
        \/ old.showSolved # new.showSolved
        \/ comparePuzzle(old) # comparePuzzle(new)
        \/ "solutions" \in set}
    \cup {e \in {"solveBatch"} :
        \/ old.activeView # new.activeView
        \/ set \cap {"puzzles", "solutions", "solveErrors"} # {}}

\* the component renders with the state set since the latest render, and
\* the effects whose dependencies changed become due
Render ==
    /\ effects = {}
    /\ ui # shown \/ touched # {}
    /\ shown' = ui
    /\ effects' = Due(shown, ui, touched)
    /\ touched' = {}
    /\ UNCHANGED <<ui, cache, fetches, heap, calls, apart, failed, hasty>>

\* effect e is the next to run: the earliest declared of those due
NextEffect(e) ==
    /\ e \in effects
    /\ \A i, j \in 1 .. Len(EffectOrder) :
           EffectOrder[i] \in effects /\ EffectOrder[j] = e => j <= i

\* effect e has run
Ran(e) ==
    /\ effects' = effects \ {e}
    /\ UNCHANGED <<shown, apart, failed, hasty>>

\* the latest state is rendered and no effect is due
Idle == effects = {} /\ ui = shown /\ touched = {}

\* the load of index.json, awaiting its answer
ManifestFetch == [kind |-> "manifest"]

\* the load of a page, awaiting the answers for its entries: hits holds
\* what the cache held for each entry when the load started (NoPuzzle if
\* nothing), alive is the flag that the effect's cleanup clears
PageFetch(entries, hits, alive) ==
    [kind |-> "page", entries |-> entries, hits |-> hits, alive |-> alive]

\* the load of a compare puzzle, awaiting its answer; stale records that
\* the fields were reset since it started and latest that Load was not
\* pressed since, and no step reads them
CompareFetch(entry, stale, latest) ==
    [kind |-> "compare", entry |-> entry, stale |-> stale, latest |-> latest]

\* the loads in flight without the i-th
Answered(i) == [k \in 1 .. Len(fetches) - 1 |-> IF k < i THEN fetches[k] ELSE fetches[k + 1]]

\* every entry of the page load f was in the cache when it started, so
\* that it awaits no file
Ready(f) == f.kind = "page" /\ \A k \in 1 .. Len(f.hits) : f.hits[k] # NoPuzzle

\* a click, a key stroke or the answer to a fetch may be handled: a load
\* that awaits no file ends before any of them
Quiet == Idle /\ \A i \in 1 .. Len(fetches) : ~Ready(fetches[i])

\* the effect on []: loadManifest() is called and awaits index.json
LoadManifest ==
    /\ NextEffect("loadManifest")
    /\ fetches' = Append(fetches, ManifestFetch)
    /\ Ran("loadManifest")
    /\ UNCHANGED <<ui, touched, heap, cache, calls>>

\* index.json arrived
ManifestLoaded ==
    /\ Quiet
    /\ \E i \in 1 .. Len(fetches) :
           /\ fetches[i].kind = "manifest"
           /\ fetches' = Answered(i)
    /\ ui' = [ui EXCEPT !.manifest = given, !.loading = FALSE]
    /\ touched' = {"manifest"}
    /\ UNCHANGED <<shown, effects, heap, cache, calls, apart, failed, hasty>>

\* the { name: "Load error", rows: [], errors: [String(error)] } of a
\* catch, rows being the array at address empty
LoadError(empty) ==
    [name |-> "Load error", file |-> "", rows |-> empty, errors |-> <<FetchError>>]

\* the fetch of index.json failed
ManifestFailed ==
    /\ Quiet
    /\ failed < MaxFailures
    /\ failed' = failed + 1
    /\ \E i \in 1 .. Len(fetches) :
           /\ fetches[i].kind = "manifest"
           /\ fetches' = Answered(i)
    /\ \E empty \in {NewBoard(heap, << >>)} :
           /\ ui' = [ui EXCEPT !.manifest = << >>,
                               !.puzzles = <<LoadError(empty.ret)>>,
                               !.loading = FALSE]
           /\ heap' = empty.heap
    /\ touched' = {"manifest", "puzzles"}
    /\ UNCHANGED <<shown, effects, cache, calls, apart, hasty>>

\* the file of entry fetched and parsed: { ...entry, ...parsed }, its rows
\* allocated in a heap that extends h
loadPuzzle(h, entry) ==
    LET got == parsePuzzle(FileOf(entry.file))
        made == NewBoard(h, got.rows)
    IN  [heap |-> made.heap,
         puzzle |-> [name |-> entry.name, file |-> entry.file,
                     rows |-> made.ret, errors |-> got.errors]]

\* what parsePuzzle gives for the file of each entry that was not in the
\* cache when the load started (nothing for the others)
parsedFiles(entries, hits) ==
    [k \in 1 .. Len(entries) |->
        IF hits[k] # NoPuzzle THEN [rows |-> << >>, errors |-> << >>]
        ELSE parsePuzzle(FileOf(entries[k].file))] \o << >>

\* how many arrays the entries before the k-th take, each parsed file
\* taking its row arrays and one outer array
arraysBefore(hits, files) ==
    [k \in 1 .. Len(files) + 1 |->
        Cardinality(UNION {{<<j, i>> : i \in 1 .. Len(files[j].rows) + 1} :
                              j \in {x \in 1 .. k - 1 : hits[x] = NoPuzzle}})] \o << >>

\* the puzzles of a page load whose files were parsed to files, the rows
\* of the k-th allocated after before[k] arrays in a heap that extends h,
\* as loadPuzzle allocates them
loadedPuzzles(h, entries, hits, files, before) ==
    [k \in 1 .. Len(entries) |->
        IF hits[k] # NoPuzzle THEN hits[k]
        ELSE [name |-> entries[k].name, file |-> entries[k].file,
              rows |-> Len(h) + before[k + 1], errors |-> files[k].errors]] \o << >>

\* the arrays of those puzzles
loadedArrays(h, hits, files, before) ==
    [a \in 1 .. before[Len(files) + 1] |->
        LET k == CHOOSE x \in 1 .. Len(files) : before[x] < a /\ a <= before[x + 1]
        IN  IF a - before[k] <= Len(files[k].rows) THEN files[k].rows[a - before[k]]
            ELSE [i \in 1 .. Len(files[k].rows) |-> Len(h) + before[k] + i]] \o << >>

\* the cache c once every puzzle loaded from a file is set in it
loadedCache(c, hits, loaded) ==
    LET set == {k \in 1 .. Len(loaded) : hits[k] = NoPuzzle}
    IN  [n \in DOMAIN c \cup {loaded[k].name : k \in set} |->
            IF \E k \in set : loaded[k].name = n
            THEN loaded[CHOOSE k \in set :
                            loaded[k].name = n /\ \A j \in set : loaded[j].name = n => j <= k]
            ELSE c[n]]

\* what Promise.all(entries.map(...)) resolves to: for every entry the
\* puzzle that the cache held when the load started, or else its file
\* fetched, parsed and put in the cache c
loadEntries(h, c, entries, hits) ==
    LET files == parsedFiles(entries, hits)
        before == arraysBefore(hits, files)
        loaded == loadedPuzzles(h, entries, hits, files, before)
    IN  [heap |-> h \o loadedArrays(h, hits, files, before),
         cache |-> loadedCache(c, hits, loaded),
         loaded |-> loaded]

\* the loads in flight, the cleanup of the page effect having run
Cleaned ==
    [i \in 1 .. Len(fetches) |->
        IF fetches[i].kind = "page"
        THEN PageFetch(fetches[i].entries, fetches[i].hits, FALSE)
        ELSE fetches[i]]

\* the effect on [viewManifest.length, page, totalPages, isSearching,
\* filteredManifest]: the cleanup of its previous run, then
\* loadPagePuzzles() up to its await, with the state of the render that
\* scheduled it
LoadPagePuzzles ==
    /\ NextEffect("loadPagePuzzles")
    /\ IF Len(viewManifest(shown)) = 0
       THEN /\ fetches' = Cleaned
            /\ UNCHANGED ui
       ELSE /\ ui' = [ui EXCEPT !.loading = TRUE, !.page = safePage(shown)]
            /\ \E entries \in {pageEntries(shown)} :
                   fetches' = Append(Cleaned,
                       PageFetch(entries,
                                 [k \in 1 .. Len(entries) |-> cacheGet(entries[k].name)],
                                 TRUE))
    /\ Ran("loadPagePuzzles")
    /\ UNCHANGED <<touched, heap, cache, calls>>

\* the files of a page load arrived: loadPagePuzzles() after its await
PageLoaded ==
    /\ Idle
    /\ \E i \in 1 .. Len(fetches) :
           /\ fetches[i].kind = "page"
           /\ Ready(fetches[i]) \/ Quiet
           /\ fetches' = Answered(i)
           /\ \E r \in {loadEntries(heap, cache, fetches[i].entries, fetches[i].hits)} :
                  /\ heap' = r.heap
                  /\ cache' = r.cache
                  /\ IF fetches[i].alive
                     THEN /\ ui' = [ui EXCEPT !.puzzles = r.loaded, !.loading = FALSE]
                          /\ touched' = {"puzzles"}
                     ELSE UNCHANGED <<ui, touched>>
    /\ UNCHANGED <<shown, effects, calls, apart, failed, hasty>>

\* the fetch of a file of a page load failed before any file of the page
\* arrived: the catch of loadPagePuzzles()
PageFailed ==
    /\ Quiet
    /\ failed < MaxFailures
    /\ failed' = failed + 1
    /\ \E i \in 1 .. Len(fetches) :
           /\ fetches[i].kind = "page"
           /\ fetches' = Answered(i)
           /\ IF fetches[i].alive
              THEN \E empty \in {NewBoard(heap, << >>)} :
                       /\ ui' = [ui EXCEPT !.puzzles = <<LoadError(empty.ret)>>,
                                           !.loading = FALSE]
                       /\ heap' = empty.heap
                       /\ touched' = {"puzzles"}
              ELSE UNCHANGED <<ui, touched, heap>>
    /\ UNCHANGED <<shown, effects, cache, calls, apart, hasty>>

\* the effect on [activePuzzleName, activeView]
ResetFields ==
    /\ NextEffect("resetFields")
    /\ ui' = [ui EXCEPT !.showSolved = (shown.activeView = "solved_mod25"),
                        !.shiftInput = "0",
                        !.manualMapInput = "",
                        !.rowMapInput = "",
                        !.colMapInput = "",
                        !.rotationDegrees = "0",
                        !.useTranspose = FALSE,
                        !.flipMode = "none",
                        !.compareInput = "",
                        !.compareName = "",
                        !.compareError = "",
                        !.compareLoading = FALSE]
    /\ fetches' = [i \in 1 .. Len(fetches) |->
                      IF fetches[i].kind = "compare"
                      THEN CompareFetch(fetches[i].entry, TRUE, fetches[i].latest)
                      ELSE fetches[i]]
    /\ Ran("resetFields")
    /\ UNCHANGED <<touched, heap, cache, calls>>

\* the effect on [activeView]
ResetPage ==
    /\ NextEffect("resetPage")
    /\ ui' = [ui EXCEPT !.page = 1]
    /\ Ran("resetPage")
    /\ UNCHANGED <<touched, heap, cache, fetches, calls>>

\* the effect on [showSolved, comparePuzzle, solutions]
SolveCompare ==
    /\ NextEffect("solveCompare")
    /\ IF \/ ~shown.showSolved
          \/ comparePuzzle(shown) = NoPuzzle
          \/ Lookup(shown.solutions, comparePuzzle(shown).name, Null) # Null
       THEN UNCHANGED <<ui, touched, heap, calls>>
       ELSE /\ Len(calls) < MaxSolves
            /\ \E r \in {solveSudoku(heap, comparePuzzle(shown).rows)} :
                   /\ heap' = r.heap
                   /\ ui' = [ui EXCEPT
                               !.solutions = With(@, comparePuzzle(shown).name, r.solution),
                               !.solveErrors = With(@, comparePuzzle(shown).name, r.error)]
            /\ touched' = touched \cup {"solutions", "solveErrors"}
            /\ calls' = Append(calls, Call(comparePuzzle(shown).name, "solveCompare"))
    /\ Ran("solveCompare")
    /\ UNCHANGED <<cache, fetches>>

RECURSIVE solveEach(_, _, _)
\* the loop of the batch effect over puzzles, made with state u: acc holds
\* the heap, nextSolutions, nextErrors and the names solved, in order
solveEach(puzzles, u, acc) ==
    IF Len(puzzles) = 0 THEN acc
    ELSE IF \/ Len(Head(puzzles).errors) > 0
            \/ Lookup(u.solutions, Head(puzzles).name, Null) # Null
            \/ Lookup(u.solveErrors, Head(puzzles).name, NoError) # NoError
    THEN solveEach(Tail(puzzles), u, acc)
    ELSE LET r == solveSudoku(acc.heap, Head(puzzles).rows)
         IN  solveEach(Tail(puzzles), u,
                 [heap |-> r.heap,
                  nextSolutions |-> With(acc.nextSolutions, Head(puzzles).name, r.solution),
                  nextErrors |-> With(acc.nextErrors, Head(puzzles).name, r.error),
                  solved |-> Append(acc.solved, Call(Head(puzzles).name, "solveBatch"))])

\* { ...existing, ...next }
Spread(existing, next) ==
    [n \in DOMAIN existing \cup DOMAIN next |->
        IF n \in DOMAIN next THEN next[n] ELSE existing[n]]

\* the effect on [activeView, puzzles, solutions, solveErrors]
SolveBatch ==
    /\ NextEffect("solveBatch")
    /\ IF shown.activeView # "solved_mod25" \/ Len(shown.puzzles) = 0
       THEN UNCHANGED <<ui, touched, heap, calls>>
       ELSE \E r \in {solveEach(shown.puzzles, shown,
                                [heap |-> heap, nextSolutions |-> << >>,
                                 nextErrors |-> << >>, solved |-> << >>])} :
                /\ Len(calls) + Len(r.solved) <= MaxSolves
                /\ heap' = r.heap
                /\ calls' = calls \o r.solved
                /\ IF Len(r.solved) > 0
                   THEN /\ ui' = [ui EXCEPT
                                    !.solutions = Spread(@, r.nextSolutions),
                                    !.solveErrors = Spread(@, r.nextErrors)]
                        /\ touched' = touched \cup {"solutions", "solveErrors"}
                   ELSE UNCHANGED <<ui, touched>>
    /\ Ran("solveBatch")
    /\ UNCHANGED <<cache, fetches>>

\* the modal is open on a puzzle
ModalOpen == Quiet /\ activePuzzle(ui) # NoPuzzle

\* the list and its controls can be clicked: the modal covers them
ListShown == Quiet /\ activePuzzle(ui) = NoPuzzle

\* the transform fields and the two buttons under them are enabled
FieldsEnabled == ModalOpen /\ Len(activePuzzle(ui).errors) = 0

\* an event handler set the state to u, no field to a new object
SetState(u) ==
    /\ ui' = u
    /\ UNCHANGED <<shown, effects, touched, cache, fetches, heap, calls, apart, failed, hasty>>

\* a click on the card of a listed puzzle
OpenPuzzle ==
    /\ ListShown
    /\ \E i \in 1 .. Len(ui.puzzles) :
           SetState([ui EXCEPT !.activePuzzleName = ui.puzzles[i].name])

\* a click on Close or on the backdrop
ClosePuzzle ==
    /\ ModalOpen
    /\ SetState([ui EXCEPT !.activePuzzleName = NoName])

\* a control of the list set the state to u, which may start a page load:
\* the page effect may run once more when it or the page reset corrects
\* the page
ListChange(u) ==
    /\ ListShown
    /\ Len(fetches) + 2 <= MaxFetches
    /\ fetches # << >> => hasty < MaxHasty
    /\ ui' = u
    /\ hasty' = IF fetches # << >> THEN hasty + 1 ELSE hasty
    /\ UNCHANGED <<shown, effects, touched, cache, fetches, heap, calls, apart, failed>>

\* a click on a view tab
SetActiveView ==
    \E view \in {"browse", "solved_mod25"} : ListChange([ui EXCEPT !.activeView = view])

\* a click on Previous
PreviousPage ==
    /\ ~isSearching(ui)
    /\ ui.page > 1
    /\ ListChange([ui EXCEPT !.page = IF @ - 1 > 1 THEN @ - 1 ELSE 1])

\* a click on Next
NextPage ==
    /\ ~isSearching(ui)
    /\ ui.page < totalPages(ui)
    /\ ListChange([ui EXCEPT !.page = IF @ + 1 < totalPages(ui) THEN @ + 1
                                     ELSE totalPages(ui)])

\* the search box was typed in
SetSearchTerm ==
    \E term \in SearchTerms : ListChange([ui EXCEPT !.searchTerm = term, !.page = 1])

\* the number of input fields of u that are not as the reset leaves them
Edited(u) ==
    Cardinality({f \in {"shiftInput", "manualMapInput", "rowMapInput", "colMapInput",
                        "rotationDegrees", "useTranspose", "flipMode", "compareInput"} :
                    u[f] # InitialState[f]})

\* a transform field was edited, giving state u
Edit(u) ==
    /\ FieldsEnabled
    /\ Edited(u) <= MaxEdits
    /\ SetState(u)

SetShiftInput == \E v \in ShiftInputs : Edit([ui EXCEPT !.shiftInput = v])

SetManualMapInput == \E v \in ManualMapInputs : Edit([ui EXCEPT !.manualMapInput = v])

SetRowMapInput == \E v \in RowMapInputs : Edit([ui EXCEPT !.rowMapInput = v])

SetColMapInput == \E v \in ColMapInputs : Edit([ui EXCEPT !.colMapInput = v])

SetRotationDegrees == \E v \in RotationInputs : Edit([ui EXCEPT !.rotationDegrees = v])

SetUseTranspose == Edit([ui EXCEPT !.useTranspose = ~@])

SetFlipMode == \E v \in FlipModes : Edit([ui EXCEPT !.flipMode = v])

\* handleToggleShowSolved()
ToggleShowSolved ==
    /\ FieldsEnabled
    /\ IF ~ui.showSolved /\ Lookup(ui.solutions, activePuzzle(ui).name, Null) = Null
       THEN /\ Len(calls) < MaxSolves
            /\ \E r \in {solveSudoku(heap, activePuzzle(ui).rows)} :
                   /\ heap' = r.heap
                   /\ ui' = [ui EXCEPT
                               !.showSolved = TRUE,
                               !.solutions = With(@, activePuzzle(ui).name, r.solution),
                               !.solveErrors = With(@, activePuzzle(ui).name, r.error)]
            /\ touched' = {"solutions", "solveErrors"}
            /\ calls' = Append(calls, Call(activePuzzle(ui).name, "handleToggleShowSolved"))
       ELSE /\ ui' = [ui EXCEPT !.showSolved = ~@]
            /\ UNCHANGED <<heap, touched, calls>>
    /\ UNCHANGED <<shown, effects, cache, fetches, apart, failed, hasty>>

\* handleDownloadSolution(); the image it draws is no part of the state
DownloadSolution ==
    /\ FieldsEnabled
    /\ IF Lookup(ui.solutions, activePuzzle(ui).name, Null) # Null
       THEN UNCHANGED <<ui, heap, touched, calls>>
       ELSE /\ Len(calls) < MaxSolves
            /\ \E r \in {solveSudoku(heap, activePuzzle(ui).rows)} :
                   /\ heap' = r.heap
                   /\ IF r.error # NoError \/ r.solution = Null
                      THEN /\ ui' = [ui EXCEPT !.solveErrors =
                                        With(@, activePuzzle(ui).name,
                                             IF r.error # NoError THEN r.error
                                             ELSE "No solution found.")]
                           /\ touched' = {"solveErrors"}
                      ELSE /\ ui' = [ui EXCEPT !.solutions =
                                        With(@, activePuzzle(ui).name, r.solution)]
                           /\ touched' = {"solutions"}
            /\ calls' = Append(calls, Call(activePuzzle(ui).name, "handleDownloadSolution"))
    /\ UNCHANGED <<shown, effects, cache, fetches, apart, failed, hasty>>

\* the compare field was typed in
SetCompareInput ==
    /\ ModalOpen
    /\ \E v \in CompareInputs :
           /\ Edited([ui EXCEPT !.compareInput = v]) <= MaxEdits
           /\ SetState([ui EXCEPT !.compareInput = v])

\* a click on Load: loadComparePuzzle() up to its await, or to its return
\* when it has nothing to fetch
LoadComparePuzzle ==
    /\ ModalOpen
    /\ ~ui.compareLoading
    /\ LET requestedName == trim(Chars(ui.compareInput))
           at == {i \in 1 .. Len(ui.manifest) :
                     Chars(ui.manifest[i].name) = requestedName}
           earlier == [i \in 1 .. Len(fetches) |->
                          IF fetches[i].kind = "compare"
                          THEN CompareFetch(fetches[i].entry, fetches[i].stale, FALSE)
                          ELSE fetches[i]]
       IN  IF Len(requestedName) = 0
           THEN /\ ui' = [ui EXCEPT !.compareName = "", !.compareError = ""]
                /\ fetches' = earlier
           ELSE IF at = {}
           THEN /\ ui' = [ui EXCEPT !.compareName = "",
                                    !.compareError = "Could not find that sudoku id."]
                /\ fetches' = earlier
           ELSE IF cacheGet(ui.manifest[Kth(at, 1)].name) # NoPuzzle
           THEN /\ ui' = [ui EXCEPT !.compareName = ui.manifest[Kth(at, 1)].name,
                                    !.compareError = ""]
                /\ fetches' = earlier
           ELSE /\ Len(fetches) < MaxFetches
                /\ ui' = [ui EXCEPT !.compareLoading = TRUE, !.compareError = ""]
                /\ fetches' = Append(earlier,
                                     CompareFetch(ui.manifest[Kth(at, 1)], FALSE, TRUE))
    /\ UNCHANGED <<shown, effects, touched, heap, cache, calls, apart, failed, hasty>>

\* the file of a compare load arrived: loadComparePuzzle() after its await
CompareLoaded ==
    /\ Quiet
    /\ \E i \in 1 .. Len(fetches) :
           /\ fetches[i].kind = "compare"
           /\ fetches' = Answered(i)
           /\ \E got \in {loadPuzzle(heap, fetches[i].entry)} :
                  /\ heap' = got.heap
                  /\ cache' = With(cache, got.puzzle.name, got.puzzle)
                  /\ ui' = [ui EXCEPT !.compareName = got.puzzle.name,
                                      !.compareLoading = FALSE]
    /\ UNCHANGED <<shown, effects, touched, calls, apart, failed, hasty>>

\* the fetch of a compare load failed: the catch of loadComparePuzzle()
CompareFailed ==
    /\ Quiet
    /\ failed < MaxFailures
    /\ failed' = failed + 1
    /\ \E i \in 1 .. Len(fetches) :
           /\ fetches[i].kind = "compare"
           /\ fetches' = Answered(i)
    /\ ui' = [ui EXCEPT !.compareName = "",
                        !.compareError = FetchError,
                        !.compareLoading = FALSE]
    /\ UNCHANGED <<shown, effects, touched, heap, cache, calls, apart, hasty>>

(* The modal and its fields: the server holds IndexJson and serves every   *)
(* file, and the user leaves the page alone while a load is in flight      *)

\* no load awaits an answer
Settled == fetches = << >>

AppNext ==
    \/ Render
    \/ LoadManifest
    \/ LoadPagePuzzles
    \/ ResetFields
    \/ ResetPage
    \/ SolveCompare
    \/ SolveBatch
    \/ ManifestLoaded
    \/ ManifestFailed
    \/ PageLoaded
    \/ Settled /\ OpenPuzzle
    \/ Settled /\ ClosePuzzle
    \/ Settled /\ SetActiveView
    \/ Settled /\ SetShiftInput
    \/ Settled /\ SetManualMapInput
    \/ Settled /\ SetRowMapInput
    \/ Settled /\ SetColMapInput
    \/ Settled /\ SetRotationDegrees
    \/ Settled /\ SetUseTranspose
    \/ Settled /\ SetFlipMode
    \/ Settled /\ ToggleShowSolved
    \/ Settled /\ DownloadSolution
    \/ Settled /\ SetCompareInput
    \/ Settled /\ LoadComparePuzzle

AppSpec == AppInit /\ [][AppNext]_vars

(* The list and its controls: what index.json lists varies, a fetch may    *)
(* fail, and the user clicks and types while loads are in flight.  Every   *)
(* render, effect and answer that can happen does happen in the end.       *)

Indexes == {ShortIndex, LoneIndex, LongIndex}

LoadInit == \E index \in Indexes : Mounted(index)

LoadNext ==
    \/ Render
    \/ LoadManifest
    \/ LoadPagePuzzles
    \/ ResetFields
    \/ ResetPage
    \/ SolveCompare
    \/ SolveBatch
    \/ ManifestLoaded
    \/ ManifestFailed
    \/ PageLoaded
    \/ PageFailed
    \/ SetActiveView
    \/ PreviousPage
    \/ NextPage
    \/ SetSearchTerm

\* React renders a state that was set and runs the effects that are due;
\* every fetch is answered or fails
React ==
    \/ Render
    \/ LoadManifest
    \/ LoadPagePuzzles
    \/ ResetFields
    \/ ResetPage
    \/ SolveCompare
    \/ SolveBatch

\* a page load leaves the loads in flight: what PageLoaded and PageFailed do
\* to fetches, and no other step does
PageAnswered ==
    /\ Idle
    /\ \E i \in 1 .. Len(fetches) :
           /\ fetches[i].kind = "page"
           /\ Ready(fetches[i]) \/ Quiet
           /\ fetches' = Answered(i)

LoadFairness ==
    /\ WF_vars(React)
    /\ WF_vars(ManifestLoaded \/ ManifestFailed)
    /\ WF_fetches(PageAnswered)

LoadSpec == LoadInit /\ [][LoadNext]_vars /\ LoadFairness

(* The compare field while loads are in flight: the server holds           *)
(* PairIndex, and the user opens  and closes puzzles, switches the view    *)
(* and loads compare puzzles without waiting for the answers.              *)

CompareInit == Mounted(PairIndex)

CompareNext ==
    \/ React
    \/ ManifestLoaded
    \/ PageLoaded
    \/ PageFailed
    \/ SetActiveView
    \/ OpenPuzzle
    \/ ClosePuzzle
    \/ SetCompareInput
    \/ LoadComparePuzzle
    \/ CompareLoaded
    \/ CompareFailed

CompareSpec == CompareInit /\ [][CompareNext]_vars

-----------------------------------------------------------------------------
(* What the claims speak of, stated on grids by value (1-based), without   *)
(* any use of the program's functions                                      *)

Digits == 1 .. 9

\* the 81 positions of a 9 x 9 grid
Positions == (1 .. 9) \X (1 .. 9)

SameBox(p, q) ==
    (p[1] - 1) \div 3 = (q[1] - 1) \div 3 /\ (p[2] - 1) \div 3 = (q[2] - 1) \div 3

\* two different positions in one row, one column or one box
Peers(p, q) == p # q /\ (p[1] = q[1] \/ p[2] = q[2] \/ SameBox(p, q))

\* position p exists in g (g may be ragged)
InGrid(g, p) == p[1] <= Len(g) /\ p[2] <= Len(g[p[1]])

NineRows(g) == Len(g) = 9
BadRows(g) == {r \in 1 .. Len(g) : Len(g[r]) # 9}
NineByNine(g) == NineRows(g) /\ BadRows(g) = {}
OutOfRange(g) == \E r \in 1 .. Len(g) : \E c \in 1 .. Len(g[r]) : g[r][c] \notin 0 .. 9
Conflicting(g) ==
    \E p \in Positions : \E q \in Positions :
        /\ Peers(p, q) /\ InGrid(g, p) /\ InGrid(g, q)
        /\ g[p[1]][p[2]] # 0 /\ g[p[1]][p[2]] = g[q[1]][q[2]]

\* the solver's preconditions
Preconditions(g) == NineByNine(g) /\ ~OutOfRange(g) /\ ~Conflicting(g)

Full(g) == \A p \in Positions : g[p[1]][p[2]] # 0

\* a legal completed grid
Legal(g) == Preconditions(g) /\ Full(g)

\* h keeps every non-zero cell of g
Agrees(g, h) == \A p \in Positions : g[p[1]][p[2]] # 0 => h[p[1]][p[2]] = g[p[1]][p[2]]

EmptyCells(g) == {p \in Positions : g[p[1]][p[2]] = 0}

\* the values no peer of p holds in g
Candidates(g, p) ==
    Digits \ {g[q[1]][q[2]] : q \in {x \in Positions : Peers(p, x)}}

RECURSIVE Fillings(_, _)
\* every way to fill the cells E of g with a value none of its peers holds
Fillings(g, E) ==
    IF E = {} THEN {g}
    ELSE LET p == CHOOSE x \in E : TRUE
         IN  UNION {Fillings([g EXCEPT ![p[1]][p[2]] = v], E \ {p}) :
                        v \in Candidates(g, p)}

\* the legal completions of a grid that meets the preconditions
Completions(g) == {h \in Fillings(g, EmptyCells(g)) : Legal(h) /\ Agrees(g, h)}

Solved == calls = <<"solveSudoku">>

\* the returned solution by value
Solution == Deref(heap, result.solution)

-----------------------------------------------------------------------------
(* C1: whenever solveSudoku has been called on a grid that meets the       *)
(* preconditions and has exactly one legal completion, it returned that    *)
(* completion with error null; on a grid already full and legal it         *)
(* returned a grid equal to its input.                                     *)
C1_UniqueCompletion ==
    (Solved /\ Preconditions(given)) =>
        \A h \in Completions(given) :
            Completions(given) = {h} =>
                /\ result.error = NoError
                /\ result.solution # Null
                /\ Solution = h
                /\ Full(given) => Solution = given

\* a call on a grid with empty cells whose only completion is not Base
C1_Witness ==
    /\ Solved /\ Preconditions(given) /\ ~Full(given)
    /\ Cardinality(Completions(given)) = 1
    /\ result.solution # Null /\ Solution # Base

(* C2: whenever solveSudoku has been called on a grid that meets the       *)
(* preconditions: if a legal completion exists, the solution is full, has  *)
(* no repeated value in a row, column or box and keeps every non-zero      *)
(* input cell; if none exists, the solution is null and the error is       *)
(* "No solution found.".                                                   *)
C2_SolutionOrNone ==
    (Solved /\ Preconditions(given)) =>
        IF Completions(given) # {}
        THEN /\ result.solution # Null
             /\ Full(Solution) /\ Legal(Solution) /\ Agrees(given, Solution)
        ELSE /\ result.solution = Null
             /\ result.error = "No solution found."

\* a call on a conflict-free grid that has no completion
C2_Witness ==
    /\ Solved /\ Preconditions(given) /\ Completions(given) = {}
    /\ result.error = "No solution found."

(* C3: solveSudoku leaves the caller's grid as it was, on every return     *)
(* path (every array the caller held has its content of before the call),  *)
(* and a returned solution is not the caller's grid and shares no row      *)
(* array with it.                                                          *)
C3_InputUntouched ==
    Solved =>
        /\ SubSeq(heap, 1, rows) = HeapOf(given)
        /\ result.solution # Null =>
             /\ result.solution # rows
             /\ \A i \in 1 .. 9 : \A j \in 1 .. 9 :
                    heap[result.solution][i] # heap[rows][j]

\* a call that wrote to its working copy: it filled empty cells
C3_Witness ==
    /\ Solved /\ NineByNine(given) /\ ~Full(given)
    /\ result.solution # Null /\ Solution # given

\* the error messages of the preconditions that grid g violates
ViolatedErrors(g) ==
    (IF NineRows(g) THEN {} ELSE {"Puzzle must have 9 rows."})
    \cup {"Row " \o ToString(r) \o " must have 9 values." : r \in BadRows(g)}
    \cup (IF OutOfRange(g) THEN {"Values must be numbers 0-9."} ELSE {})
    \cup (IF Conflicting(g) THEN {"Puzzle has conflicting values."} ELSE {})

(* C4: the preconditions are checked before any search.  A grid that does  *)
(* not have 9 rows gets "Puzzle must have 9 rows."; whenever a             *)
(* precondition is violated the solution is null, solveBoard was not       *)
(* called and the error names a precondition that is violated (row count,  *)
(* "Row N must have 9 values." for a row N whose length is not 9, value    *)
(* out of 0..9, conflicting values); a precondition error is reported only *)
(* when one is violated; exactly one of solution and error is non-null.    *)
C4_PreconditionErrors ==
    Solved =>
        /\ ~NineRows(given) => result.error = "Puzzle must have 9 rows."
        /\ ~Preconditions(given) =>
             /\ result.solution = Null
             /\ ~result.searched
             /\ result.error \in ViolatedErrors(given)
        /\ Preconditions(given) =>
             /\ result.searched
             /\ result.error \in {NoError, "No solution found."}
        /\ (result.solution = Null) # (result.error = NoError)

\* a call on a grid that violates two preconditions at once: the conflict
\* in row 1 is reported before the short row 5 is reached
C4_Witness ==
    /\ Solved /\ Cardinality(ViolatedErrors(given)) = 2
    /\ BadRows(given) = {5}
    /\ result.error = "Puzzle has conflicting values."

-----------------------------------------------------------------------------
(* C5: isValid is symmetric under transposition: once transposeBoard has   *)
(* been called on a grid g, isValid(g, r, c, v) equals                     *)
(* isValid(transposeBoard(g), c, r, v) for every r, c in 0..8 and v in     *)
(* 1..9.                                                                   *)
C5_TransposeSymmetry ==
    calls = <<"transposeBoard">> =>
        \A r \in Idx : \A c \in Idx : \A v \in Digits :
            isValid(heap, rows, r, c, v) = isValid(heap, board, c, r, v)

\* a transposed grid that differs from its input and on which isValid gives
\* both answers
C5_Witness ==
    /\ calls = <<"transposeBoard">>
    /\ Deref(heap, board) # given
    /\ \E r \in Idx : \E c \in Idx : \E v \in Digits : isValid(heap, rows, r, c, v)
    /\ \E r \in Idx : \E c \in Idx : \E v \in Digits : ~isValid(heap, rows, r, c, v)

\* g is what the seven steps give on the grid at b; each step's result is
\* bound once, so that no step is evaluated twice
SevenSteps(h, b, opts, g) ==
    \A shifted \in {applyShift(h, b, opts.shiftValue)} :
    \A relabelled \in {applyManualMapping(shifted.heap, shifted.ret, opts.manualPairs)} :
    \A rowsMoved \in {applyRowMapping(relabelled.heap, relabelled.ret, opts.rowPairs)} :
    \A colsMoved \in {applyColumnMapping(rowsMoved.heap, rowsMoved.ret, opts.colPairs)} :
    \A rotated \in {rotateBoard(colsMoved.heap, colsMoved.ret, opts.rotationDegrees)} :
    \A transposed \in {IF opts.useTranspose
                       THEN transposeBoard(rotated.heap, rotated.ret)
                       ELSE rotated} :
    \A mirrored \in {flipBoard(transposed.heap, transposed.ret, opts.flipMode)} :
        g = Deref(mirrored.heap, mirrored.ret)

(* C6: applyBoardTransforms returns what the seven steps return when       *)
(* applied one after the other in the order shift, manual relabel, row     *)
(* permutation, column permutation, rotation, transpose (if the flag is    *)
(* set), mirror; the result is a 9 x 9 grid, the caller's grid is left as  *)
(* it was and the result shares no array with it.                          *)
C6_PipelineOrder ==
    board # Null =>
        /\ SevenSteps(HeapOf(given), rows, options, Deref(heap, board))
        /\ NineByNine(Deref(heap, board))
        /\ SubSeq(heap, 1, rows) = HeapOf(given)
        /\ board # rows
        /\ \A i \in 1 .. 9 : \A j \in 1 .. 9 : heap[board][i] # heap[rows][j]

\* a pipeline call in which every step does something
C6_Witness ==
    /\ "applyBoardTransforms" \in {calls[i] : i \in 1 .. Len(calls)}
    /\ ~Full(given)
    /\ options.shiftValue # 0 /\ options.manualPairs # << >>
    /\ options.rowPairs # << >> /\ options.colPairs # << >>
    /\ options.rotationDegrees = 90 /\ options.useTranspose
    /\ options.flipMode = "vertical"
    /\ board # Null /\ Deref(heap, board) # given

(* C7: applySpatialTransforms puts the original values where the full      *)
(* transform puts them: once both have been called on a grid with the same *)
(* options, applying the shift step and then the manual relabel step to    *)
(* the spatial result gives the full result, cell by cell.                 *)
C7_SpatialThenLabels ==
    (board # Null /\ overlay # Null) =>
        LET shifted == applyShift(heap, overlay, options.shiftValue)
            relabelled == applyManualMapping(shifted.heap, shifted.ret,
                                             options.manualPairs)
        IN  Deref(relabelled.heap, relabelled.ret) = Deref(heap, board)

\* both calls made with value steps and spatial steps that change the grid
C7_Witness ==
    /\ board # Null /\ overlay # Null
    /\ options.shiftValue # 0 /\ options.manualPairs # << >>
    /\ options.rowPairs # << >> /\ options.flipMode # "none"
    /\ Deref(heap, overlay) # given
    /\ Deref(heap, overlay) # Deref(heap, board)

(* C8: the spatial round trips: rotateBoard by 90 called four times in a   *)
(* row, transposeBoard called twice, flipBoard "horizontal" called twice   *)
(* and flipBoard "vertical" called twice each give back the grid they      *)
(* started from.                                                           *)
C8_RoundTrips ==
    calls \in { <<"rotateBoard(90)", "rotateBoard(90)",
                  "rotateBoard(90)", "rotateBoard(90)">>,
                <<"transposeBoard", "transposeBoard">>,
                <<"flipBoard(horizontal)", "flipBoard(horizontal)">>,
                <<"flipBoard(vertical)", "flipBoard(vertical)">> }
        => Deref(heap, board) = given

\* four rotations made, on a grid with empty cells
C8_Witness ==
    /\ calls = <<"rotateBoard(90)", "rotateBoard(90)",
                 "rotateBoard(90)", "rotateBoard(90)">>
    /\ ~Full(given)
    /\ board # rows /\ Deref(heap, board) = given

(* C9: for every shift s, applyShift by s followed by applyShift by 9 - s  *)
(* gives back the grid: after the first shift a cell is zero exactly when  *)
(* it was zero and every other cell is in 1..9, and after the second every *)
(* cell has its original value.                                            *)
C9_ShiftRoundTrip ==
    /\ calls = <<"applyShift(s)">> =>
           \A p \in Positions :
               /\ Deref(heap, board)[p[1]][p[2]] \in 0 .. 9
               /\ Deref(heap, board)[p[1]][p[2]] = 0 <=> given[p[1]][p[2]] = 0
    /\ calls = <<"applyShift(s)", "applyShift(9-s)">> =>
           Deref(heap, board) = given

\* a negative shift below -9, made and undone, on a grid with empty cells
C9_Witness ==
    /\ calls = <<"applyShift(s)", "applyShift(9-s)">>
    /\ options.shiftValue < -9 /\ options.shiftValue % 9 # 0
    /\ ~Full(given)
    /\ Deref(heap, board) = given

\* the source index of target t: the from of the last pair whose to is t
SourceOf(pairs, t) ==
    LET hits == {i \in 1 .. Len(pairs) : pairs[i].to = t}
    IN  IF hits = {} THEN t
        ELSE pairs[CHOOSE i \in hits : \A j \in hits : i >= j].from

(* C10: row and column permutation read from a snapshot: row t of          *)
(* applyRowMapping(g, pairs) is row f of g, where (f, t) is the last pair  *)
(* whose to is t, and row t of g when no pair has to = t; likewise for the *)
(* columns of applyColumnMapping.  The single pair 1 -> 2 leaves row 1 as  *)
(* it was and makes row 2 a copy of the original row 1.                    *)
C10_SnapshotMapping ==
    /\ calls = <<"applyRowMapping">> =>
           /\ \A t \in 1 .. 9 :
                  Deref(heap, board)[t] = given[SourceOf(options.rowPairs, t)]
           /\ options.rowPairs = <<Pair(1, 2)>> =>
                  /\ Deref(heap, board)[1] = given[1]
                  /\ Deref(heap, board)[2] = given[1]
    /\ calls = <<"applyColumnMapping">> =>
           \A r \in 1 .. 9 : \A t \in 1 .. 9 :
               Deref(heap, board)[r][t] = given[r][SourceOf(options.colPairs, t)]

\* the partial cycle 1 -> 2, 2 -> 9: row 9 is the original row 2, not the
\* row 1 that was just written to row 2
C10_Witness ==
    /\ calls = <<"applyRowMapping">>
    /\ options.rowPairs = <<Pair(1, 2), Pair(2, 9)>>
    /\ Deref(heap, board)[9] = given[2]
    /\ Deref(heap, board)[2] = given[1]
    /\ given[1] # given[2]

\* the grids at addresses a and b are both present, both 9 x 9, and hold the
\* same value in every cell
Matching(a, b) ==
    /\ a # Null /\ b # Null
    /\ NineByNine(Deref(heap, a)) /\ NineByNine(Deref(heap, b))
    /\ \A p \in Positions :
           Deref(heap, a)[p[1]][p[2]] = Deref(heap, b)[p[1]][p[2]]

(* C11: boardsAreEqual(a, b) is true exactly when a and b both have 9 rows *)
(* of 9 values and agree in every cell, zeros included; so a 9 x 9 grid is *)
(* equal to itself, the result does not depend on the order of the         *)
(* arguments, and it is false when an argument is missing, ragged or not   *)
(* 9 rows long.                                                            *)
C11_EqualExactly ==
    /\ "first,second" \in DOMAIN result =>
           /\ result["first,second"] = Matching(first, second)
           /\ (first = Null \/ second = Null) => ~result["first,second"]
           /\ (first # Null /\ ~NineByNine(Deref(heap, first))) =>
                  ~result["first,second"]
           /\ (second # Null /\ ~NineByNine(Deref(heap, second))) =>
                  ~result["first,second"]
    /\ "second,first" \in DOMAIN result =>
           result["second,first"] = Matching(first, second)
    /\ {"first,second", "second,first"} \subseteq DOMAIN result =>
           result["first,second"] = result["second,first"]
    /\ "first,first" \in DOMAIN result =>
           result["first,first"] =
               (first # Null /\ NineByNine(Deref(heap, first)))

\* two distinct arrays holding the same grid with an empty cell compare
\* equal in both orders
C11_Witness ==
    /\ {"first,second", "second,first"} \subseteq DOMAIN result
    /\ result["first,second"] /\ result["second,first"]
    /\ first # second
    /\ \E p \in Positions : Deref(heap, first)[p[1]][p[2]] = 0

-----------------------------------------------------------------------------
(* What the claims about puzzle files speak of, read off the lines the     *)
(* file was written from (given), without any use of the parser            *)

\* the positions of the digit characters of a line
DigitsAt(line) == {i \in 1 .. Len(line) : line[i] \in DigitChars}

\* the positions where a maximal run of digits starts, and where one ends
RunStarts(line) == {i \in DigitsAt(line) : i - 1 \notin DigitsAt(line)}
RunEnds(line) == {i \in DigitsAt(line) : i + 1 \notin DigitsAt(line)}

\* the lines with a character that is not white space
SolidLines ==
    SelectSeq(given, LAMBDA line : \E i \in 1 .. Len(line) : line[i] \notin WhiteSpace)

\* the data lines: the lines with at least one digit
DataLines == SelectSeq(given, LAMBDA line : DigitsAt(line) # {})

\* row is the digits of line, one per cell, then zeros up to 9 cells
DigitPerCell(line, row) ==
    /\ Len(row) = 9
    /\ \A i \in 1 .. 9 :
           row[i] = IF i <= Cardinality(DigitsAt(line))
                    THEN DigitOf(line[Kth(DigitsAt(line), i)])
                    ELSE 0

\* row is the runs of digits of line read as decimal numbers
RunPerCell(line, row) ==
    /\ Len(row) = Cardinality(RunStarts(line))
    /\ \A k \in 1 .. Len(row) :
           LET a == Kth(RunStarts(line), k)
               b == Kth(RunEnds(line), k)
           IN  \A j \in a .. b :
                   DigitOf(line[j]) = IF j = a THEN row[k] \div (10 ^ (b - a))
                                      ELSE (row[k] \div (10 ^ (b - j))) % 10

\* the line gives a row of nine values
NineValues(line) ==
    Cardinality(DigitsAt(line)) <= 9 \/ Cardinality(RunStarts(line)) = 9

\* the diagnostics due, in order: one for each solid line that is a data
\* line without nine values, then one if there are not nine data lines
DueErrors ==
    LET bad == SelectSeq([i \in 1 .. Len(SolidLines) |-> i],
                         LAMBDA i : /\ DigitsAt(SolidLines[i]) # {}
                                    /\ ~NineValues(SolidLines[i]))
    IN  [k \in 1 .. Len(bad) |->
            "Row " \o ToString(bad[k]) \o " has "
                   \o ToString(Cardinality(RunStarts(SolidLines[bad[k]])))
                   \o " values, expected 9."]
        \o (IF Len(DataLines) = 9 THEN << >>
            ELSE <<"Puzzle has " \o ToString(Len(DataLines)) \o " rows, expected 9.">>)

Parsed == Len(calls) > 0 /\ calls[1] = "parsePuzzle"

(* C12: parsePuzzle returns rows and errors for every text; blank lines and *)
(* lines without a digit give no row, every other line gives exactly one   *)
(* row, in input order; a row that has not 9 values is reported and still  *)
(* returned, and the lines after it are still read; errors is empty if and *)
(* only if there are exactly 9 rows of exactly 9 values.                   *)
C12_TotalAccumulating ==
    Parsed =>
        /\ DOMAIN parsed = {"rows", "errors"}
        /\ Len(parsed.rows) = Len(DataLines)
        /\ \A k \in 1 .. Len(DataLines) :
               IF Cardinality(DigitsAt(DataLines[k])) <= 9
               THEN DigitPerCell(DataLines[k], parsed.rows[k])
               ELSE RunPerCell(DataLines[k], parsed.rows[k])
        /\ Len(parsed.errors) =
               Cardinality({k \in 1 .. Len(parsed.rows) : Len(parsed.rows[k]) # 9})
               + (IF Len(parsed.rows) = 9 THEN 0 ELSE 1)
        /\ (parsed.errors = << >>) <=> NineByNine(parsed.rows)

\* a file of 8 lines with a row of 10 values in the middle: two
\* diagnostics, and the rows after the long one are there
C12_Witness ==
    /\ Parsed
    /\ Len(given) = 8 /\ Len(parsed.rows) = 8 /\ Len(parsed.errors) = 2
    /\ Len(parsed.rows[5]) = 10 /\ Len(parsed.rows[8]) = 9

(* C13 as stated: a text with exactly 8 data lines yields exactly one      *)
(* diagnostic, "Puzzle has 8 rows, expected 9.".                           *)
C13_EightDataLines ==
    (Parsed /\ Len(DataLines) = 8) =>
        parsed.errors = <<"Puzzle has 8 rows, expected 9.">>

(* C13, amended: a text with exactly 8 data lines, each of them holding at *)
(* most 9 digit characters or exactly 9 runs of digits, yields exactly one *)
(* diagnostic, "Puzzle has 8 rows, expected 9.".                           *)
C13_EightNineValueLines ==
    (/\ Parsed
     /\ Len(DataLines) = 8
     /\ \A k \in 1 .. 8 : NineValues(DataLines[k])) =>
        parsed.errors = <<"Puzzle has 8 rows, expected 9.">>

\* eight data lines, one of them holding 10 digit characters in 9 runs
C13_Witness ==
    /\ Parsed
    /\ Len(DataLines) = 8
    /\ \E k \in 1 .. 8 : Cardinality(DigitsAt(DataLines[k])) = 10
    /\ parsed.errors = <<"Puzzle has 8 rows, expected 9.">>

(* C20: the row of a line depends on the count d of its digit characters:  *)
(* for 1 <= d <= 9 it is the d digits in order, one per cell (runs of      *)
(* several digits split), padded with zeros to exactly 9 cells, and the    *)
(* line gets no diagnostic; for d >= 10 it is the maximal runs of digits   *)
(* read as numbers, unpadded, with a diagnostic unless there are 9 runs.   *)
(* Nine lines of nine separated single digits that form a valid Sudoku     *)
(* give no diagnostic and a grid that solveSudoku returns unchanged.       *)
C20_LineFormat ==
    Parsed =>
        /\ \A k \in 1 .. Len(DataLines) :
               /\ k <= Len(parsed.rows)
               /\ Cardinality(DigitsAt(DataLines[k])) <= 9 =>
                      DigitPerCell(DataLines[k], parsed.rows[k])
               /\ Cardinality(DigitsAt(DataLines[k])) >= 10 =>
                      RunPerCell(DataLines[k], parsed.rows[k])
        /\ parsed.errors = DueErrors
        /\ (\E fmt \in {"spaced", "comma"} :
                given = [r \in 1 .. 9 |-> FormatRow(Base[r], fmt)]) =>
               /\ parsed.rows = Base /\ parsed.errors = << >>
               /\ calls = <<"parsePuzzle", "solveSudoku">> =>
                      /\ result.error = NoError
                      /\ result.solution # Null
                      /\ Deref(heap, result.solution) = Base

\* the valid grid written as nine lines of separated digits, parsed and solved
C20_Witness ==
    /\ calls = <<"parsePuzzle", "solveSudoku">>
    /\ given = [r \in 1 .. 9 |-> FormatRow(Base[r], "spaced")]
    /\ Deref(heap, result.solution) = Base

-----------------------------------------------------------------------------
(* What the claims about the transform notations speak of, read off the    *)
(* pieces the field was written from (given.pieces), without any use of    *)
(* the parsers                                                             *)

\* the positions of the characters of a piece that are not white space
Solids(piece) == {i \in 1 .. Len(piece) : piece[i] \notin WhiteSpace}

\* the chunks of a relabel field that are not blank
SolidChunks == SelectSeq(given.pieces, LAMBDA chunk : Solids(chunk) # {})

\* one digit 1..9, then white space or a single "-", then one digit 1..9
GoodChunk(chunk) ==
    LET at(k) == Kth(Solids(chunk), k)
    IN  \/ /\ Cardinality(Solids(chunk)) = 2
           /\ chunk[at(1)] \in IndexChars /\ chunk[at(2)] \in IndexChars
           /\ at(2) > at(1) + 1
        \/ /\ Cardinality(Solids(chunk)) = 3
           /\ chunk[at(1)] \in IndexChars /\ chunk[at(2)] = "-"
           /\ chunk[at(3)] \in IndexChars
           /\ at(3) = at(1) + 2

\* the pair a good chunk stands for
ChunkPair(chunk) ==
    Pair(DigitOf(chunk[Kth(Solids(chunk), 1)]),
         DigitOf(chunk[Kth(Solids(chunk), Cardinality(Solids(chunk)))]))

\* the digits of a piece, in order
DigitsOf(piece) ==
    [k \in 1 .. Cardinality(DigitsAt(piece)) |-> DigitOf(piece[Kth(DigitsAt(piece), k)])]

\* a parenthesised group of k >= 2 pairwise distinct digits 1..9 separated
\* by white space or commas
GoodGroup(piece) ==
    /\ Len(piece) >= 2 /\ piece[1] = "(" /\ piece[Len(piece)] = ")"
    /\ \A i \in 2 .. Len(piece) - 1 : piece[i] \in IndexChars \cup Separators
    /\ \A i \in DigitsAt(piece) : i + 1 \notin DigitsAt(piece)
    /\ Cardinality(DigitsAt(piece)) >= 2
    /\ Cardinality({piece[i] : i \in DigitsAt(piece)}) = Cardinality(DigitsAt(piece))

\* the field is made only of good groups, pairwise disjoint
GoodCycles ==
    /\ given.kind = "cycles" /\ Len(given.pieces) >= 1
    /\ \A g \in 1 .. Len(given.pieces) : GoodGroup(given.pieces[g])
    /\ \A g \in 1 .. Len(given.pieces) : \A h \in 1 .. g - 1 :
           {given.pieces[g][i] : i \in DigitsAt(given.pieces[g])}
           \cap {given.pieces[h][i] : i \in DigitsAt(given.pieces[h])} = {}

\* how many digits the pieces before the g-th hold
DigitsBefore(g) ==
    Cardinality(UNION {{<<h, i>> : i \in DigitsAt(given.pieces[h])} : h \in 1 .. g - 1})

(* C14: for a field made only of parenthesised groups of k >= 2 pairwise   *)
(* distinct digits 1..9 separated by white space or commas, the groups     *)
(* pairwise disjoint, parseCycleNotation returns an empty error and, group *)
(* by group in input order, the k pairs v[i] -> v[(i+1) mod k], the pair   *)
(* last -> first included, and validatePermutationPairs returns "" on      *)
(* them; "(1 2 3)(4 5)" gives 1->2, 2->3, 3->1, 4->5, 5->4.                *)
C14_CyclePairs ==
    (/\ Len(calls) > 0 /\ calls[1] = "parseCycleNotation"
     /\ GoodCycles) =>
        /\ parsed.error = ""
        /\ Len(parsed.pairs) = DigitsBefore(Len(given.pieces) + 1)
        /\ \A g \in 1 .. Len(given.pieces) :
               LET v == DigitsOf(given.pieces[g])
               IN  \A i \in 1 .. Len(v) :
                       parsed.pairs[DigitsBefore(g) + i] = Pair(v[i], v[(i % Len(v)) + 1])
        /\ Len(calls) = 2 => result = ""
        /\ given.pieces = <<Chars("(1 2 3)"), Chars("(4 5)")>> =>
               parsed.pairs = <<Pair(1, 2), Pair(2, 3), Pair(3, 1), Pair(4, 5), Pair(5, 4)>>

\* "(1 2 3)(4 5)" parsed and validated
C14_Witness ==
    /\ calls = <<"parseCycleNotation", "validatePermutationPairs">>
    /\ text = Chars("(1 2 3)(4 5)")
    /\ Len(parsed.pairs) = 5 /\ result = ""

ParsedPairs == calls = <<"parsePairs">> /\ given.kind = "pairs"

\* what C15 says of a text none of whose chunks fails, of a text with a
\* chunk that fails, and of "6 8,5-7"
PairsAllOrNothing ==
    /\ (\E k \in 1 .. Len(SolidChunks) : ~GoodChunk(SolidChunks[k])) =>
           parsed = [pairs |-> << >>,
                     error |-> "Use comma-separated pairs like 1 2,3-4."]
    /\ (Len(SolidChunks) > 0
        /\ \A k \in 1 .. Len(SolidChunks) : GoodChunk(SolidChunks[k])) =>
           parsed = [pairs |-> [k \in 1 .. Len(SolidChunks) |-> ChunkPair(SolidChunks[k])],
                     error |-> ""]
    /\ text = Chars("6 8,5-7") =>
           parsed = [pairs |-> <<Pair(6, 8), Pair(5, 7)>>, error |-> ""]

(* C15 as stated: if every non-empty trimmed chunk is a pair, parsePairs   *)
(* returns one pair per chunk in input order with an empty error; if any   *)
(* chunk fails it returns no pairs and the single error; empty or          *)
(* white-space-only input returns empty pairs and an empty error.          *)
C15_AllOrNothing ==
    ParsedPairs =>
        /\ PairsAllOrNothing
        /\ Len(SolidChunks) = 0 => parsed = [pairs |-> << >>, error |-> ""]

(* C15, amended: if there is a non-empty trimmed chunk and every such      *)
(* chunk is a pair, parsePairs returns one pair per chunk in input order   *)
(* with an empty error; if any chunk fails, or if the input is not blank   *)
(* and has no non-empty chunk (only commas and white space), it returns no *)
(* pairs and the single error; empty or white-space-only input returns     *)
(* empty pairs and an empty error.                                         *)
C15_AllOrNothingButCommas ==
    ParsedPairs =>
        /\ PairsAllOrNothing
        /\ Solids(text) = {} => parsed = [pairs |-> << >>, error |-> ""]
        /\ (Len(SolidChunks) = 0 /\ Solids(text) # {}) =>
               parsed = [pairs |-> << >>,
                         error |-> "Use comma-separated pairs like 1 2,3-4."]

\* two pairs in the two forms, the first written with white space around
C15_Witness ==
    /\ ParsedPairs
    /\ Len(given.pieces) = 2
    /\ parsed.pairs = <<Pair(1, 2), Pair(5, 7)>>

\* a from value occurs in two pairs
FromRepeats(pairs) ==
    \E i \in 1 .. Len(pairs) : \E j \in 1 .. Len(pairs) :
        i # j /\ pairs[i].from = pairs[j].from

\* a to value occurs in two pairs
ToRepeats(pairs) ==
    \E i \in 1 .. Len(pairs) : \E j \in 1 .. Len(pairs) :
        i # j /\ pairs[i].to = pairs[j].to

\* the pairs before the n-th hold no value twice, on either side
CleanBefore(pairs, n) ==
    ~FromRepeats(SubSeq(pairs, 1, n - 1)) /\ ~ToRepeats(SubSeq(pairs, 1, n - 1))

\* the fields validated so far, each with its pairs
Validated ==
    {f \in {[name |-> "rowMapError", pairs |-> options.rowPairs],
            [name |-> "colMapError", pairs |-> options.colPairs]} :
        f.name \in DOMAIN result}

(* C16 as stated: the source message if any from value repeats, the        *)
(* destination message if any to value repeats, "" exactly when none       *)
(* repeats, and the source message when both a from and a to repeat.       *)
C16_SourceWins ==
    \A f \in Validated :
        /\ (result[f.name] = "") <=> (~FromRepeats(f.pairs) /\ ~ToRepeats(f.pairs))
        /\ FromRepeats(f.pairs) =>
               result[f.name] = "Each source index can only appear once."
        /\ (ToRepeats(f.pairs) /\ ~FromRepeats(f.pairs)) =>
               result[f.name] = "Each destination index can only appear once."

(* C16, amended: validatePermutationPairs returns "" exactly when no from  *)
(* and no to value repeats; otherwise it returns the message of the first  *)
(* pair, in order, that repeats a value of an earlier pair: the source     *)
(* message if that pair's from repeats (also when its to repeats too),     *)
(* else the destination message.  So it is the source message when only    *)
(* from values repeat and the destination message when only to values do.  *)
C16_FirstRepeatWins ==
    \A f \in Validated :
        /\ (result[f.name] = "") <=> (~FromRepeats(f.pairs) /\ ~ToRepeats(f.pairs))
        /\ \A n \in 1 .. Len(f.pairs) :
               (CleanBefore(f.pairs, n) /\ ~CleanBefore(f.pairs, n + 1)) =>
                   result[f.name] =
                       IF FromRepeats(SubSeq(f.pairs, 1, n))
                       THEN "Each source index can only appear once."
                       ELSE "Each destination index can only appear once."
        /\ (FromRepeats(f.pairs) /\ ~ToRepeats(f.pairs)) =>
               result[f.name] = "Each source index can only appear once."
        /\ (ToRepeats(f.pairs) /\ ~FromRepeats(f.pairs)) =>
               result[f.name] = "Each destination index can only appear once."

\* a to repeats at the second pair and a from at the third: the
\* destination message
C16_Witness ==
    /\ "rowMapError" \in DOMAIN result
    /\ options.rowPairs = <<Pair(1, 2), Pair(5, 2), Pair(1, 5)>>
    /\ result["rowMapError"] = "Each destination index can only appear once."

-----------------------------------------------------------------------------

\* position q is read before position p in row-major order
Before(q, p) == q[1] < p[1] \/ (q[1] = p[1] /\ q[2] < p[2])

\* grid a is smaller than grid b at the first cell, in row-major order,
\* where they differ
LexLess(a, b) ==
    \E p \in Positions :
        /\ a[p[1]][p[2]] < b[p[1]][p[2]]
        /\ \A q \in Positions : Before(q, p) => a[q[1]][q[2]] = b[q[1]][q[2]]

(* C19: for a grid that passes the preconditions and has a legal           *)
(* completion, the solution returned is the smallest legal completion in   *)
(* the lexicographic order of the grids read row by row; a second call on  *)
(* an equal grid returns an equal solution and an equal error.             *)
C19_FirstInSearchOrder ==
    /\ (Len(calls) >= 1 /\ Preconditions(given) /\ Completions(given) # {}) =>
           /\ result.solution # Null
           /\ Solution \in Completions(given)
           /\ \A c \in Completions(given) : c = Solution \/ LexLess(Solution, c)
    /\ Len(calls) = 2 =>
           /\ result.again.error = result.error
           /\ (result.again.solution = Null) <=> (result.solution = Null)
           /\ result.solution # Null =>
                  /\ result.again.solution # result.solution
                  /\ Deref(heap, result.again.solution) = Solution

\* a grid with two completions solved twice
C19_Witness ==
    /\ Len(calls) = 2
    /\ Preconditions(given) /\ Cardinality(Completions(given)) = 2
    /\ Deref(heap, result.again.solution) = Solution

-----------------------------------------------------------------------------

\* the puzzles the component holds, in the cache or in the list
Held == {cache[n] : n \in DOMAIN cache} \cup {ui.puzzles[i] : i \in 1 .. Len(ui.puzzles)}

\* the names of the puzzles held that have a diagnostic
Diagnosed == {p.name : p \in {q \in Held : Len(q.errors) > 0}}

(* C17: a puzzle whose errors list is not empty is never solved and never  *)
(* transformed: solveSudoku was never called on its rows, solutions and    *)
(* solveErrors have no entry for it, and the render calls neither          *)
(* applyBoardTransforms nor applySpatialTransforms on its rows (the first  *)
(* is called when canApplyTransforms holds, the second when                *)
(* hasActiveTransforms holds).                                             *)
C17_DiagnosedUntouched ==
    /\ \A i \in 1 .. Len(calls) : calls[i].on \notin Diagnosed
    /\ \A n \in Diagnosed : n \notin DOMAIN ui.solutions \cup DOMAIN ui.solveErrors
    /\ activePuzzle(shown).name \in Diagnosed =>
           ~canApplyTransforms(shown) /\ ~hasActiveTransforms(shown)

-----------------------------------------------------------------------------

\* the notation fields of state u that have a parse or validity error
InError(u) ==
    {f \in {"manualMapInput"} : parsedManualMapping(u).error # ""}
    \cup {f \in {"rowMapInput"} : rowMapError(u) # ""}
    \cup {f \in {"colMapInput"} : colMapError(u) # ""}

\* the transform options of state u without the pairs of the fields in
\* error
OtherFields(u) ==
    [transformOptions(u) EXCEPT
        !.manualPairs = IF "manualMapInput" \in InError(u) THEN << >> ELSE @,
        !.rowPairs = IF "rowMapInput" \in InError(u) THEN << >> ELSE @,
        !.colPairs = IF "colMapInput" \in InError(u) THEN << >> ELSE @]

(* C18: when exactly one of the relabel, row map and column map fields has *)
(* a parse or validity error, the grid displayed for a puzzle without      *)
(* diagnostic is the displayed base grid with every other transform field  *)
(* applied.                                                                *)
C18_OtherFieldsApplied ==
    (/\ activePuzzle(shown) # NoPuzzle
     /\ Len(activePuzzle(shown).errors) = 0
     /\ Cardinality(InError(shown)) = 1) =>
        \A displayed \in {transformedRows(shown)} :
        \A due \in {applyBoardTransforms(heap, baseDisplayRows(shown), OtherFields(shown))} :
            Deref(displayed.heap, displayed.ret) = Deref(due.heap, due.ret)

-----------------------------------------------------------------------------

\* a parenthesised group of digits 1..9 separated by white space or commas
DigitGroup(piece) ==
    /\ Len(piece) >= 2 /\ piece[1] = "(" /\ piece[Len(piece)] = ")"
    /\ \A i \in 2 .. Len(piece) - 1 : piece[i] \in IndexChars \cup Separators
    /\ \A i \in DigitsAt(piece) : i + 1 \notin DigitsAt(piece)
    /\ DigitsAt(piece) # {}

\* the group holds fewer than 2 distinct values
OneValued(piece) == Cardinality({piece[i] : i \in DigitsAt(piece)}) < 2

\* how many digits the pieces before the g-th that are not one-valued hold
CycledBefore(g) ==
    Cardinality(UNION {{<<h, i>> : i \in DigitsAt(given.pieces[h])} :
                          h \in {k \in 1 .. g - 1 : ~OneValued(given.pieces[k])}})

(* C21: for a field made only of parenthesised groups of digits 1..9,      *)
(* parseCycleNotation returns an empty error, and a group with fewer than  *)
(* 2 distinct values, "(3)" as well as "(1 1)", contributes no pair: the   *)
(* pairs are those of the other groups, in input order.                    *)
C21_OneValuedGroupsSkipped ==
    (/\ Len(calls) > 0 /\ calls[1] = "parseCycleNotation"
     /\ given.kind = "cycles" /\ Len(given.pieces) >= 1
     /\ \A g \in 1 .. Len(given.pieces) : DigitGroup(given.pieces[g])) =>
        /\ parsed.error = ""
        /\ Len(parsed.pairs) = CycledBefore(Len(given.pieces) + 1)
        /\ \A g \in 1 .. Len(given.pieces) :
               LET v == DigitsOf(given.pieces[g])
               IN  ~OneValued(given.pieces[g]) =>
                       \A i \in 1 .. Len(v) :
                           /\ CycledBefore(g) + i <= Len(parsed.pairs)
                           /\ parsed.pairs[CycledBefore(g) + i] = Pair(v[i], v[(i % Len(v)) + 1])

-----------------------------------------------------------------------------
(* C22: applyManualMapping returns a grid of the shape of its input in     *)
(* which each zero cell is zero and each non-zero cell v holds the to of   *)
(* the last pair whose from is v, or v when no pair has from = v; the      *)
(* pairs are applied once, not chained (with 1->2, 2->3 a cell holding 1   *)
(* becomes 2), whether or not they form a bijection.                       *)
C22_RelabelledOnce ==
    calls = <<"applyManualMapping">> =>
        \A out \in {Deref(heap, board)} :
            /\ Len(out) = Len(given)
            /\ \A r \in 1 .. Len(given) :
                   /\ Len(out[r]) = Len(given[r])
                   /\ \A c \in 1 .. Len(given[r]) :
                          LET v == given[r][c]
                              pairs == options.manualPairs
                          IN  /\ v = 0 => out[r][c] = 0
                              /\ (v # 0 /\ \A i \in 1 .. Len(pairs) : pairs[i].from # v)
                                     => out[r][c] = v
                              /\ \A i \in 1 .. Len(pairs) :
                                     (/\ v # 0 /\ pairs[i].from = v
                                      /\ \A j \in (i + 1) .. Len(pairs) : pairs[j].from # v)
                                         => out[r][c] = pairs[i].to
                              /\ (pairs = <<Pair(1, 2), Pair(2, 3)>> /\ v = 1)
                                     => out[r][c] = 2

\* 1->2, 1->3 applied to a grid with an empty cell: not a bijection, and
\* the cells holding 1 hold 3, those holding 3 still hold 3
C22_Witness ==
    /\ calls = <<"applyManualMapping">>
    /\ options.manualPairs = <<Pair(1, 2), Pair(1, 3)>>
    /\ \E r, c \in 1 .. 9 : given[r][c] = 0
    /\ \E r, c \in 1 .. 9 : given[r][c] = 1 /\ Deref(heap, board)[r][c] = 3
    /\ \E r, c \in 1 .. 9 : given[r][c] = 3 /\ Deref(heap, board)[r][c] = 3

-----------------------------------------------------------------------------

\* what parsePuzzle gives for a served file, by value: the rows the file
\* holds and the diagnostic of a file that lacks a row
Served(file) ==
    [rows |-> [r \in 1 .. RowsOf(file) |-> GridOf(file)[r]],
     errors |-> IF RowsOf(file) = 9 THEN << >>
                ELSE <<"Puzzle has " \o ToString(RowsOf(file)) \o " rows, expected 9.">>]

\* the heaps in which the latest render built the transformed grids; they
\* extend heap
RenderedHeaps ==
    {transformedRows(shown).heap, transformedBaseRows(shown).heap,
     transformedOriginalOverlayRows(shown).heap}

\* the arrays that grid b is made of in heap
ArraysOf(b) == {b} \cup {heap[b][i] : i \in 1 .. Len(heap[b])}

-----------------------------------------------------------------------------
(* C28: in every state rendered with the overlay grid for the active       *)
(* puzzle, each cell of the displayed transformed grid is the shift and    *)
(* then the relabel of the same cell of the overlay grid, also while a     *)
(* relabel, row map or column map field has a parse or validity error.     *)
C28_OverlayMatchesGrid ==
    (activePuzzle(shown) # NoPuzzle /\ transformedOriginalOverlayRows(shown).ret # Null) =>
        \A over \in {transformedOriginalOverlayRows(shown)} :
        \A main \in {transformedRows(shown)} :
        \A shifted \in {applyShift(over.heap, over.ret, transformOptions(shown).shiftValue)} :
        \A relabelled \in {applyManualMapping(shifted.heap, shifted.ret,
                                              transformOptions(shown).manualPairs)} :
            Deref(relabelled.heap, relabelled.ret) = Deref(main.heap, main.ret)

-----------------------------------------------------------------------------

\* the calls of solveSudoku that the batch effect made, oldest first
BatchCalls == SelectSeq(calls, LAMBDA call : call.by = "solveBatch")

\* the name reads as an integer that 25 divides
DivisibleBy25(name) ==
    /\ Len(Chars(name)) > 0
    /\ \A i \in 1 .. Len(Chars(name)) : Chars(name)[i] \in DigitChars
    /\ parseInt(Chars(name)) % 25 = 0

(* C29: the batch effect calls solveSudoku only on puzzles whose name      *)
(* reads as an integer that 25 divides, also right after a switch from the *)
(* browse view while the puzzles of the browse page are still in state,    *)
(* and on each such puzzle at most once.                                   *)
C29_BatchOnItsOwnPuzzles ==
    /\ \A i \in 1 .. Len(BatchCalls) : DivisibleBy25(BatchCalls[i].on)
    /\ \A i, j \in 1 .. Len(BatchCalls) : BatchCalls[i].on = BatchCalls[j].on => i = j

-----------------------------------------------------------------------------

\* the compare effect is due and will call solveSudoku on the puzzle named
\* name
SolvesAgain(name) ==
    /\ "solveCompare" \in effects
    /\ shown.showSolved
    /\ comparePuzzle(shown) # NoPuzzle
    /\ comparePuzzle(shown).name = name
    /\ Lookup(shown.solutions, name, Null) = Null

\* the state awaits the render that follows a solve of the compare effect:
\* every step that sets solutions also records its call, and no handler
\* runs before that render
SolvedByEffect ==
    /\ effects = {}
    /\ "solutions" \in touched
    /\ Len(calls) > 0
    /\ calls[Len(calls)].by = "solveCompare"

(* C24: the compare effect calls solveSudoku on a loaded compare puzzle at *)
(* most once per load, whether the solve succeeds or fails: the render     *)
(* that follows its solve does not make it due to solve that puzzle again, *)
(* so that without user input no effect sets solutions or solveErrors any  *)
(* more.                                                                   *)
C24_SolvedOncePerLoad ==
    [][SolvedByEffect => ~SolvesAgain(calls[Len(calls)].on)']_vars


(* The loading indicator *)

\* C25: when every effect runs, every render happens and every fetch is
\* answered, the loading indicator always clears: from every state with
\* loading = true a state with loading = false is reached.
C25_LoadingClears == (ui.loading = TRUE) ~> (ui.loading = FALSE)


(* The list of puzzles *)

\* the names of a list of entries or puzzles
Names(list) == [i \in 1 .. Len(list) |-> list[i].name]

\* the entries that the list is to show: the first 200 matches while a
\* search term is present, otherwise the slice of the current page, 60
\* entries to a page in the browse view and 18 in the solved view
CurrentSlice ==
    LET matches == filteredManifest(ui)
        size == IF ui.activeView = "browse" THEN 60 ELSE 18
        from == IF isSearching(ui) THEN 1 ELSE (ui.page - 1) * size + 1
        upto == IF isSearching(ui) THEN 200 ELSE ui.page * size
    IN  SubSeq(matches, from, IF upto < Len(matches) THEN upto ELSE Len(matches))

\* the page load f was started for a slice that is no longer the current one
Superseded(f) == f.kind = "page" /\ Names(f.entries) # Names(CurrentSlice)

\* a step that answers a superseded page load leaves puzzles and loading
\* as they are
StaleLoadWritesNothing ==
    \A i \in 1 .. Len(fetches) :
        (Superseded(fetches[i]) /\ fetches' = Answered(i)) =>
            (ui'.puzzles = ui.puzzles /\ ui'.loading = ui.loading)

\* with nothing pending, no fetch in flight and no fetch failed, the list
\* shows the current slice
ListIsCurrentSlice ==
    (Idle /\ fetches = << >> /\ failed = 0) => Names(ui.puzzles) = Names(CurrentSlice)

\* C26: the displayed puzzles follow the latest request: a page load that
\* has been superseded never writes puzzles or loading, and whenever no
\* fetch is in flight and none has failed the list of puzzles is the
\* current slice of the filtered manifest of the current view.
C26_PuzzlesFollowRequest == [][StaleLoadWritesNothing]_vars /\ []ListIsCurrentSlice


(* The compare selection *)

\* the step answers the compare load at position i of the loads in flight
AnswersCompare(i) ==
    /\ i \in 1 .. Len(fetches)
    /\ fetches[i].kind = "compare"
    /\ fetches' = Answered(i)
    /\ Len(ui'.manifest) = Len(ui.manifest)
    /\ ui'.compareInput = ui.compareInput

\* the compare name is set only by a press of Load or by the answer to a
\* compare load that was started since the fields were last reset
NameSetInContext ==
    (ui.compareName = "" /\ ui'.compareName # "") =>
        \/ LoadComparePuzzle
        \/ \E i \in 1 .. Len(fetches) : AnswersCompare(i) /\ ~fetches[i].stale

\* the answer to a compare load that was started before the fields were
\* reset sets none of compareName, compareError and compareLoading
StaleCompareWritesNothing ==
    \A i \in 1 .. Len(fetches) :
        (AnswersCompare(i) /\ fetches[i].stale) =>
            /\ ui'.compareName = ui.compareName
            /\ ui'.compareError = ui.compareError
            /\ ui'.compareLoading = ui.compareLoading

\* the answer to a compare load after which Load was pressed again, with
\* no later compare load in flight, leaves compareName as it is
LatestCompareWins ==
    \A i \in 1 .. Len(fetches) :
        (/\ AnswersCompare(i)
         /\ ~fetches[i].latest
         /\ \A j \in 1 .. Len(fetches) : fetches[j].kind = "compare" => ~fetches[j].latest) =>
            ui'.compareName = ui.compareName

\* C27: the compare selection is scoped to the open puzzle: once the active
\* puzzle or the view has changed, compareName is set only by a press of
\* Load in the new context; a compare load started before the change sets
\* none of compareName, compareError and compareLoading after it; and of
\* overlapping compare loads the most recently requested one decides
\* compareName.
C27_CompareScopedToPuzzle ==
    [][NameSetInContext /\ StaleCompareWritesNothing /\ LatestCompareWins]_vars

=============================================================================
